---- MODULE Spec2Model ----
(***************************************************************************)
(* NavYatra AI service: the Autonomous Decision Engine                     *)
(* (app/ai_automation/decision_engine.py), its feedback sink               *)
(* (app/ml/feedback_loop.py), the Intelligent Scheduler                    *)
(* (app/ai_automation/intelligent_scheduler.py), the Assignment Optimizer  *)
(* (app/optimization/engine.py) and the control and job endpoints          *)
(* (app/routers/ai_automation.py, app/routers/optimization.py).            *)
(*                                                                         *)
(* Conventions.  Reals in [0,1] are integers in hundredths (0.75 is 75).   *)
(* Wall-clock time is an integer number of minutes since the start of the  *)
(* run; dates are day numbers.  An optional value (Python None or a        *)
(* value) is a set with at most one element.  A Python list or an          *)
(* insertion-ordered dict is a sequence.                                   *)
(***************************************************************************)
EXTENDS Integers, Sequences, FiniteSets, TLC

VARIABLES
    now,                    \* the wall clock, minutes since the start of the run
    fleet,                  \* the fleet store behind _get_current_trainsets / _update_trainset_status
    active_decisions,       \* AutonomousAIEngine.active_decisions, in insertion order
    decision_history,       \* AutonomousAIEngine.decision_history (ids of the decisions appended)
    decision_counter,       \* AutonomousAIEngine.decision_counter
    feedback,               \* MLFeedbackLoop.performance_history
    executed,               \* keys of the decisions ever passed to an execution handler
    lastExec,               \* what the executor tick that has just ended did, in order
                            \* (empty when the last step was not an executor tick)
    generated_schedules,    \* IntelligentAutoScheduler.generated_schedules (confidences)
    performance_history,    \* IntelligentAutoScheduler.performance_history
    confidence_threshold,   \* IntelligentAutoScheduler.confidence_threshold
    auto_execution_threshold, \* IntelligentAutoScheduler.auto_execution_threshold
    optimizer,              \* the call of SchedulingOptimizer.optimize_schedule in progress:
                            \* its arguments, its position and the locals of its driver
    stop_requested,         \* POST /stop (stop_ai_automation) has been served
    active_jobs,            \* routers/optimization.py active_jobs, in insertion order
    loop_tasks,             \* the tasks created for each background loop, and the
                            \* number of POST /start requests served
    telemetry_history,      \* PredictiveMaintenanceAI.telemetry_history
    lastOp                  \* the operation that produced the current state

vars == <<now, fleet, active_decisions, decision_history, decision_counter,
          feedback, executed, lastExec, generated_schedules,
          performance_history, confidence_threshold,
          auto_execution_threshold, optimizer, stop_requested, active_jobs,
          loop_tasks, telemetry_history,
          lastOp>>

schedulerVars == <<generated_schedules, performance_history,
                   confidence_threshold, auto_execution_threshold>>

optimizerVars == <<optimizer>>

serviceVars == <<stop_requested, active_jobs, loop_tasks, telemetry_history>>

----------------------------------------------------------------------------
(* Bounds of the model *)

MaxTime == 6
MaxStep == 3
MaxDecisions == 2
MaxFeedback == 3
StartMinuteOfDay == 1318
RingRun == 1001
MaxSchedules == 1
MaxOld == 3
MaxGood == 20
MaxBad == 8

----------------------------------------------------------------------------
(* Helpers *)

Min(a, b) == IF a < b THEN a ELSE b
Max(a, b) == IF a > b THEN a ELSE b

Range(s) == {s[i] : i \in 1..Len(s)}

Prefix(s, n) == SubSeq(s, 1, Min(n, Len(s)))

RECURSIVE SelectIds(_, _)
\* [ts['trainset_id'] for ts in trainsets if ts['status'] == status]
SelectIds(trainsets, status) ==
    IF trainsets = <<>> THEN <<>>
    ELSE LET rest == SelectIds(Tail(trainsets), status)
         IN  IF Head(trainsets).status = status
             THEN <<Head(trainsets).trainset_id>> \o rest
             ELSE rest

TheDate(opt) == CHOOSE d \in opt : TRUE

\* datetime fields of the clock value t
HourOf(t) == ((StartMinuteOfDay + t) \div 60) % 24
MinuteOf(t) == (StartMinuteOfDay + t) % 60
DateOf(t) == (StartMinuteOfDay + t) \div 1440

----------------------------------------------------------------------------
(* Program constants *)

engine_confidence_threshold == 75
max_autonomous_trainsets == 15
batch_size == 100
schedule_times == {6, 10, 14, 18, 22}

ScheduleDeadlineMinutes == 15
MaintenanceDeadlineMinutes == 1440
EmergencyDeadlineMinutes == 5
CleaningDeadlineMinutes == 30

----------------------------------------------------------------------------
(* The fleet *)

TrainsetIds == <<"TS001", "TS002">>

Trainset(id, status, expiry, maintenance) ==
    [trainset_id |-> id, status |-> status, fitness_expiry_date |-> expiry,
     next_maintenance_date |-> maintenance]

\* The fleets the runs start from.  TS001: no fitness expiry date, expired
\* yesterday, expiring today or valid for a month, and expired while already
\* out of order.  TS002: nothing due, maintenance due in three days, or
\* certificate expiring today with maintenance due tomorrow.
FleetInputs ==
    {<<Trainset("TS001", a[1], a[2], {}), Trainset("TS002", "AVAILABLE", b[1], b[2])>> :
        a \in {<<"AVAILABLE", {}>>, <<"AVAILABLE", {-1}>>, <<"AVAILABLE", {0}>>,
               <<"AVAILABLE", {30}>>, <<"OUT_OF_ORDER", {-1}>>},
        b \in {<<{30}, {}>>, <<{30}, {3}>>, <<{0}, {1}>>}}

Predictions == {50, 80}

NoExec == [time |-> 0, events |-> <<>>]

\* No call of the optimizer is in progress.
NoOptimization == [phase |-> "none"]

\* The background loops: _continuous_monitoring and _decision_executor of the
\* engine; the scheduling, performance and adaptive loops of the scheduler.
EngineLoops == {"evaluator", "executor"}
SchedulerLoops == {"scheduling", "performance", "adaptive"}
BackgroundLoops == EngineLoops \cup SchedulerLoops

\* No task has been created: the state after construction.
NoTasks == [starts |-> 0, tasks |-> [loop \in BackgroundLoops |-> 0]]

\* One task per loop: the create_task calls of initialize and
\* start_autonomous_scheduling have each run once.
TasksCreated == [starts |-> 1, tasks |-> [loop \in BackgroundLoops |-> 1]]

----------------------------------------------------------------------------
(* Decision rules of the evaluator *)

NewDecision(id, type, urgency, t, conf, action, affected, approval, deadline, count) ==
    [decision_id |-> id, decision_type |-> type, urgency |-> urgency,
     timestamp |-> t, confidence |-> conf, action |-> action,
     affected_trainsets |-> affected, requires_human_approval |-> approval,
     execution_deadline |-> deadline, trainset_count |-> count,
     approved |-> FALSE]

\* Returns the list of zero or one decision; decision_counter is not advanced.
EvaluateScheduleOptimization(trainsets, t, counter, prediction) ==
    IF HourOf(t) \in schedule_times /\ MinuteOf(t) < 5
       /\ prediction > engine_confidence_threshold
    THEN <<NewDecision(<<"AUTO_SCHEDULE", "", counter>>, "schedule_optimization",
                       "high", t, prediction, "optimize_schedule",
                       SelectIds(trainsets, "AVAILABLE"), FALSE,
                       t + ScheduleDeadlineMinutes, 0)>>
    ELSE <<>>

RECURSIVE EvaluateMaintenanceNeeds(_, _, _)
\* Returns [decisions, counter]: the decisions of the trainsets in list
\* order and the counter after them.
EvaluateMaintenanceNeeds(trainsets, t, counter) ==
    IF trainsets = <<>> THEN [decisions |-> <<>>, counter |-> counter]
    ELSE LET ts == Head(trainsets)
             days == TheDate(ts.next_maintenance_date) - DateOf(t)
             emit == /\ ts.next_maintenance_date # {}
                     /\ days <= 3
                     /\ ts.status = "AVAILABLE"
             d == NewDecision(<<"MAINT", ts.trainset_id, counter>>,
                              "maintenance_scheduling",
                              IF days <= 1 THEN "high" ELSE "medium",
                              t, 90, "schedule_maintenance",
                              <<ts.trainset_id>>, days <= 1,
                              t + MaintenanceDeadlineMinutes, 0)
             rest == EvaluateMaintenanceNeeds(Tail(trainsets), t,
                                              IF emit THEN counter + 1 ELSE counter)
         IN  [decisions |-> (IF emit THEN <<d>> ELSE <<>>) \o rest.decisions,
              counter |-> rest.counter]

\* An emergency decision given the deadline of a schedule decision.
EmergencyDecisionLateDeadline(ts, t, counter) ==
    NewDecision(<<"EMERGENCY_FITNESS", ts.trainset_id, counter>>,
                "emergency_response", "critical", t, 100,
                "emergency_deactivate", <<ts.trainset_id>>, FALSE,
                t + ScheduleDeadlineMinutes, 0)

\* The decision built for one trainset with an expired fitness certificate.
EmergencyDecision(ts, t, counter) ==
    NewDecision(<<"EMERGENCY_FITNESS", ts.trainset_id, counter>>,
                "emergency_response", "critical", t, 100,
                "emergency_deactivate", <<ts.trainset_id>>, FALSE,
                t + EmergencyDeadlineMinutes, 0)

RECURSIVE EvaluateEmergencySituations(_, _, _)
EvaluateEmergencySituations(trainsets, t, counter) ==
    IF trainsets = <<>> THEN [decisions |-> <<>>, counter |-> counter]
    ELSE LET ts == Head(trainsets)
             days == TheDate(ts.fitness_expiry_date) - DateOf(t)
             emit == /\ ts.fitness_expiry_date # {}
                     /\ days <= 0
                     /\ ts.status # "OUT_OF_ORDER"
             d == EmergencyDecision(ts, t, counter)
             rest == EvaluateEmergencySituations(Tail(trainsets), t,
                                                 IF emit THEN counter + 1 ELSE counter)
         IN  [decisions |-> (IF emit THEN <<d>> ELSE <<>>) \o rest.decisions,
              counter |-> rest.counter]

EvaluateResourceAllocation(trainsets, t, counter) ==
    LET available == SelectIds(trainsets, "AVAILABLE")
        cleaning_count == Max(2, Len(available) \div 4)
    IN  IF HourOf(t) = 22 /\ MinuteOf(t) < 10 /\ Len(available) >= 6
        THEN [decisions |->
                <<NewDecision(<<"AUTO_CLEANING", "", counter>>, "cleaning_schedule",
                              "medium", t, 85, "schedule_cleaning",
                              Prefix(available, cleaning_count), FALSE,
                              t + CleaningDeadlineMinutes, cleaning_count)>>,
              counter |-> counter + 1]
        ELSE [decisions |-> <<>>, counter |-> counter]

\* self.active_decisions[decision.decision_id] = decision: a key already
\* present keeps its place in the dict, a new key goes to the end.
DictPut(active, d) ==
    IF \E i \in 1..Len(active) : active[i].decision_id = d.decision_id
    THEN [i \in 1..Len(active) |->
            IF active[i].decision_id = d.decision_id THEN d ELSE active[i]]
    ELSE Append(active, d)

RECURSIVE ProcessDecisions(_, _, _)
\* Returns [active, history] after _process_decision of each decision in order.
ProcessDecisions(decisions, active, history) ==
    IF decisions = <<>> THEN [active |-> active, history |-> history]
    ELSE ProcessDecisions(Tail(decisions),
                          DictPut(active, Head(decisions)),
                          Append(history, Head(decisions).decision_id))

\* One evaluator tick that reads the clock value t and gets `prediction'
\* from the success model.
EvaluateSystemState(t, prediction, cap) ==
    /\ Len(decision_history) < cap
    /\ LET trainsets == fleet
           sched == EvaluateScheduleOptimization(trainsets, t, decision_counter, prediction)
           maint == EvaluateMaintenanceNeeds(trainsets, t, decision_counter)
           emerg == EvaluateEmergencySituations(trainsets, t, maint.counter)
           res == EvaluateResourceAllocation(trainsets, t, emerg.counter)
           decisions == sched \o maint.decisions \o emerg.decisions \o res.decisions
           stored == ProcessDecisions(decisions, active_decisions, decision_history)
       IN  /\ now' = t
           /\ decision_counter' = res.counter
           /\ active_decisions' = stored.active
           /\ decision_history' = stored.history
           /\ lastOp' = [op |-> "evaluate", emitted |-> decisions]
    /\ lastExec' = NoExec
    /\ UNCHANGED <<fleet, feedback, executed>>
    /\ UNCHANGED schedulerVars
    /\ UNCHANGED optimizerVars
    /\ UNCHANGED serviceVars

----------------------------------------------------------------------------
(* Approval.  _is_decision_ready_for_execution reads an `approved'         *)
(* attribute that an operator sets on a decision awaiting approval.        *)

Approve(i) ==
    /\ i \in 1..Len(active_decisions)
    /\ active_decisions[i].requires_human_approval
    /\ ~active_decisions[i].approved
    /\ active_decisions' = [active_decisions EXCEPT ![i].approved = TRUE]
    /\ lastOp' = [op |-> "approve"]
    /\ lastExec' = NoExec
    /\ UNCHANGED <<now, fleet, decision_history, decision_counter, feedback,
                   executed>>
    /\ UNCHANGED schedulerVars
    /\ UNCHANGED optimizerVars
    /\ UNCHANGED serviceVars

----------------------------------------------------------------------------
(* The executor *)

\* Identifies a decision object: ids alone can repeat.
DecisionKey(d) == <<d.decision_id, d.timestamp>>

\* Readiness that forgets the approval check.
IsDecisionReadyIgnoringApproval(decision, current_time) ==
    IF current_time > decision.execution_deadline THEN FALSE ELSE TRUE

\* Readiness that forgets the deadline check.
IsDecisionReadyIgnoringDeadline(decision, current_time) ==
    IF decision.requires_human_approval THEN decision.approved ELSE TRUE

IsDecisionReadyForExecution(decision, current_time) ==
    IF current_time > decision.execution_deadline THEN FALSE
    ELSE IF decision.requires_human_approval THEN decision.approved
    ELSE TRUE

\* One step of an executor tick: the handler is entered for a decision
\* ("handler"), the status writer is called ("status_write"), an emergency
\* alert is sent, the handler returns ("returned"), process_feedback appends a
\* record ("feedback"), the decision is deleted from the active set
\* ("removed"), an exception leaves the tick ("raise").
Event(ev, decision, ok, ts, status) ==
    [ev |-> ev, decision |-> decision, ok |-> ok, ts |-> ts, status |-> status]

\* The status writer (a placeholder in the source, standing for the update
\* of the fleet store): the call returns `ok'; a successful call stores the
\* status of the trainset.
UpdateTrainsetStatus(trainsets, trainset_id, status, ok) ==
    IF ok
    THEN [i \in 1..Len(trainsets) |->
            IF trainsets[i].trainset_id = trainset_id
            THEN [trainsets[i] EXCEPT !.status = status]
            ELSE trainsets[i]]
    ELSE trainsets

RECURSIVE CleaningWrites(_, _, _, _)
\* The loop of _execute_cleaning_schedule over the affected trainsets:
\* [fleet, events, successful_updates].
CleaningWrites(ids, d, st, wr) ==
    IF ids = <<>> THEN st
    ELSE CleaningWrites(Tail(ids), d,
            [fleet |-> UpdateTrainsetStatus(st.fleet, Head(ids), "CLEANING", wr[Head(ids)]),
             events |-> Append(st.events,
                               Event("status_write", d, wr[Head(ids)],
                                     Head(ids), "CLEANING")),
             successful_updates |-> st.successful_updates
                                      + (IF wr[Head(ids)] THEN 1 ELSE 0)],
            wr)

\* The fields of TrainsetData declared with Field(...): a constructor call
\* that leaves one of them out raises a ValidationError.
TrainsetDataRequiredFields ==
    {"trainset_id", "trainset_number", "manufacturer", "model", "capacity",
     "current_mileage", "total_mileage", "status", "depot", "fitness_valid",
     "fitness_status"}

\* The keyword arguments of the TrainsetData(...) call of
\* _prepare_trainset_data.
PrepareTrainsetDataKeywords ==
    {"trainset_id", "fitness_valid", "has_high_priority_jobs",
     "current_mileage", "branding_priority", "last_cleaning_date",
     "stabling_preference"}

\* The fields of OptimizationRequest declared with Field(...).
OptimizationRequestRequiredFields == {"optimization_id", "schedule_date"}

\* The keyword arguments of the OptimizationRequest(...) call of
\* _create_enhanced_optimization_request.
EnhancedRequestKeywords ==
    {"optimization_id", "algorithm", "max_trainsets", "parameters"}

\* _execute_schedule_optimization: the trainsets of the fleet named in the
\* decision are turned into TrainsetData in fleet order, whatever their
\* status is by now; the call of the constructor for the first of them
\* ("trainset_data") raises for want of required fields, as does the call of
\* OptimizationRequest(...); the handler catches the exception and reports
\* failure.  opt is whether the optimizer would complete.
ExecuteScheduleOptimization(d, trainsets, opt) ==
    LET selected == SelectSeq(trainsets,
                        LAMBDA ts : ts.trainset_id \in Range(d.affected_trainsets))
        data_raises ==
            /\ selected # <<>>
            /\ TrainsetDataRequiredFields \ PrepareTrainsetDataKeywords # {}
        request_raises ==
            OptimizationRequestRequiredFields \ EnhancedRequestKeywords # {}
        built == IF data_raises THEN 1 ELSE Len(selected)
    IN  [success |-> ~data_raises /\ ~request_raises /\ opt,
         fleet |-> trainsets,
         events |-> [i \in 1..built |->
                        Event("trainset_data", d, ~data_raises,
                              selected[i].trainset_id, selected[i].status)]]

\* _execute_decision: dispatch on the action tag.  wr[ts] is what the status
\* writer returns for trainset ts, opt whether the optimizer completes.
\* Every handler catches its own exceptions, so a result is always returned.
ExecuteDecision(d, trainsets, wr, opt) ==
    LET ts == d.affected_trainsets[1]
    IN  CASE d.action = "optimize_schedule" ->
               ExecuteScheduleOptimization(d, trainsets, opt)
          [] d.action = "schedule_maintenance" ->
               [success |-> wr[ts],
                fleet |-> UpdateTrainsetStatus(trainsets, ts, "MAINTENANCE", wr[ts]),
                events |-> <<Event("status_write", d, wr[ts], ts, "MAINTENANCE")>>]
          [] d.action = "emergency_deactivate" ->
               [success |-> wr[ts],
                fleet |-> UpdateTrainsetStatus(trainsets, ts, "OUT_OF_ORDER", wr[ts]),
                events |-> <<Event("status_write", d, wr[ts], ts, "OUT_OF_ORDER")>>
                           \o (IF wr[ts]
                               THEN <<Event("emergency_alert", d, TRUE, ts, "")>>
                               ELSE <<>>)]
          [] d.action = "schedule_cleaning" ->
               LET w == CleaningWrites(Prefix(d.affected_trainsets, d.trainset_count), d,
                                       [fleet |-> trainsets, events |-> <<>>,
                                        successful_updates |-> 0], wr)
               IN  [success |-> w.successful_updates > 0, fleet |-> w.fleet,
                    events |-> w.events]
          [] OTHER -> [success |-> FALSE, fleet |-> trainsets, events |-> <<>>]

\* MLFeedbackLoop.process_feedback: no planned metric of a decision is a key
\* of the handler's result, so the performance is the success score; the
\* record is appended and the history is cleared by batch learning when it
\* reaches batch_size.
ProcessFeedback(history, id, success) ==
    LET appended == Append(history,
                           [schedule_id |-> id,
                            performance |-> IF success THEN 100 ELSE 0,
                            feedback_type |-> IF success THEN "schedule_success"
                                                         ELSE "schedule_failure"])
    IN  IF Len(appended) >= batch_size THEN <<>> ELSE appended

\* An await that accepted a plain value and went on.
AwaitOfPlainValueReturns == FALSE

\* `await x' where x is the value returned by a plain (non-async) function:
\* the function has run, then the await raises TypeError.
AwaitOfPlainValueRaises == TRUE

\* _record_decision_outcome: builds the outcome, calls process_feedback and
\* awaits the dict it returns.
RecordDecisionOutcome(st, d, success) ==
    [st EXCEPT !.feedback = ProcessFeedback(st.feedback, d.decision_id, success),
               !.events = Append(st.events,
                                 Event("feedback", d, success, "", "")),
               !.raised = AwaitOfPlainValueRaises]

RemoveKey(active, id) == SelectSeq(active, LAMBDA x : x.decision_id # id)

RECURSIVE ExecuteLoop(_, _, _, _, _)
\* The for loop of _execute_pending_decisions over the snapshot
\* list(self.active_decisions.items()), from its i-th item on.
ExecuteLoop(snapshot, i, st, current_time, inp) ==
    IF i > Len(snapshot) THEN st
    ELSE
    LET decision == snapshot[i] IN
    IF ~IsDecisionReadyForExecution(decision, current_time)
    THEN ExecuteLoop(snapshot, i + 1, st, current_time, inp)
    ELSE
    LET result == ExecuteDecision(decision, st.fleet, inp.wr, inp.opt)
        handled == [st EXCEPT
                      !.fleet = result.fleet,
                      !.executed = @ \cup {DecisionKey(decision)},
                      !.events = (Append(@, Event("handler", decision,
                                                  result.success, "", "")))
                                 \o result.events
                                 \o <<Event("returned", decision,
                                            result.success, "", "")>>]
        recorded == RecordDecisionOutcome(handled, decision, result.success)
    IN  IF ~recorded.raised
        THEN \* del self.active_decisions[decision_id]
             ExecuteLoop(snapshot, i + 1,
                         [recorded EXCEPT
                            !.active = RemoveKey(@, decision.decision_id),
                            !.events = Append(@, Event("removed", decision,
                                                       TRUE, "", ""))],
                         current_time, inp)
        ELSE \* except Exception: record the outcome as a failure
             LET again == RecordDecisionOutcome([recorded EXCEPT !.raised = FALSE],
                                                decision, FALSE)
             IN  IF again.raised
                 THEN \* the exception leaves the handler and the tick
                      [again EXCEPT !.events = Append(@, Event("raise", decision,
                                                               FALSE, "", ""))]
                 ELSE ExecuteLoop(snapshot, i + 1, again, current_time, inp)

\* One executor tick.  The status writer and the optimizer are collaborators
\* of the engine: `failing' are the trainsets whose status write does not go
\* through during this tick, optimizer_fails whether an optimization run of
\* this tick ends with status failed.
ExecutePendingDecisions ==
    /\ Len(feedback) < MaxFeedback
    /\ \E failing \in SUBSET Range(TrainsetIds), optimizer_fails \in BOOLEAN :
         LET current_time == now
             wr == [ts \in Range(TrainsetIds) |-> ts \notin failing]
             final == ExecuteLoop(active_decisions, 1,
                                  [active |-> active_decisions, fleet |-> fleet,
                                   feedback |-> feedback, executed |-> executed,
                                   events |-> <<>>, raised |-> FALSE],
                                  current_time,
                                  [wr |-> wr, opt |-> ~optimizer_fails])
         IN  /\ active_decisions' = final.active
             /\ fleet' = final.fleet
             /\ feedback' = final.feedback
             /\ executed' = final.executed
             /\ lastExec' = [time |-> current_time, events |-> final.events]
             /\ lastOp' = [op |-> "execute"]
    /\ UNCHANGED <<now, decision_history, decision_counter>>
    /\ UNCHANGED schedulerVars
    /\ UNCHANGED optimizerVars
    /\ UNCHANGED serviceVars

----------------------------------------------------------------------------
(* The wall clock *)

Advance ==
    /\ \E step \in 1..MaxStep :
         /\ now + step <= MaxTime
         /\ now' = now + step
    /\ lastOp' = [op |-> "advance"]
    /\ lastExec' = NoExec
    /\ UNCHANGED <<fleet, active_decisions, decision_history, decision_counter,
                   feedback, executed>>
    /\ UNCHANGED schedulerVars
    /\ UNCHANGED optimizerVars
    /\ UNCHANGED serviceVars

----------------------------------------------------------------------------
(* The decision engine *)

EvaluatorTick == \E prediction \in Predictions :
                    EvaluateSystemState(now, prediction, MaxDecisions)

ExecutorTick == ExecutePendingDecisions

ApproveDecision == \E i \in 1..Len(active_decisions) : Approve(i)

Init ==
    /\ now = 0
    /\ fleet \in FleetInputs
    /\ active_decisions = <<>>
    /\ decision_history = <<>>
    /\ decision_counter = 0
    /\ feedback = <<>>
    /\ executed = {}
    /\ lastExec = NoExec
    /\ generated_schedules = <<>>
    /\ performance_history = <<>>
    /\ confidence_threshold = 75
    /\ auto_execution_threshold = 85
    /\ optimizer = NoOptimization
    /\ stop_requested = FALSE
    /\ active_jobs = <<>>
    /\ loop_tasks = TasksCreated
    /\ telemetry_history = <<>>
    /\ lastOp = [op |-> "init"]

Next ==
    \/ EvaluatorTick
    \/ ExecutorTick
    \/ ApproveDecision
    \/ Advance

Spec == Init /\ [][Next]_vars

----------------------------------------------------------------------------
(* The Intelligent Scheduler: scheduling loop and adaptive-learning loop *)

critical_hours == {5, 6, 9, 12, 16, 17, 20, 22}

MinHistoryForAdaptation == 10
AdaptationWindow == 20
DefaultActualPerformance == 80
SuccessCut == 70
ConfidenceFloor == 70
ConfidenceCeiling == 85
\* An auto-execution floor as low as the confidence floor.
AutoExecutionFloorAtConfidenceFloor == ConfidenceFloor

AutoExecutionFloor == 80

AutoExecutionCeiling == 95

\* _evaluate_scheduling_need; `emergency' is what
\* _check_emergency_scheduling_need returns.
EvaluateSchedulingNeed(t, emergency) ==
    \/ HourOf(t) \in critical_hours /\ MinuteOf(t) < 10
    \/ emergency
    \/ HourOf(t) % 4 = 0 /\ MinuteOf(t) < 10

\* The record _execute_schedule_automatically appends: it has no
\* 'actual_performance' key.
ExecutionRecord(confidence) ==
    [confidence |-> confidence, auto_executed |-> TRUE, actual_performance |-> {}]

\* _execute_schedule_automatically: the plan is run step by step; the
\* execution is recorded unless a step raises (ok = FALSE).
ExecuteScheduleAutomatically(history, confidence, ok) ==
    IF ok THEN Append(history, ExecutionRecord(confidence)) ELSE history

\* One pass of the body of _continuous_scheduling_loop.  generated is what
\* _generate_intelligent_schedule returns: no schedule ({}) or a schedule of
\* some confidence, which it has appended to generated_schedules.
ContinuousSchedulingLoop(t, emergency, generated, ok) ==
    /\ Len(generated_schedules) < MaxSchedules
    /\ IF EvaluateSchedulingNeed(t, emergency) /\ generated # {}
       THEN LET confidence == TheDate(generated) IN
            /\ generated_schedules' = Append(generated_schedules, confidence)
            /\ performance_history' =
                 IF confidence >= auto_execution_threshold
                 THEN ExecuteScheduleAutomatically(performance_history, confidence, ok)
                 ELSE performance_history
            /\ lastOp' = [op |-> "schedule",
                          route |-> IF confidence >= auto_execution_threshold
                                    THEN "auto_execute"
                                    ELSE IF confidence >= confidence_threshold
                                    THEN "request_approval"
                                    ELSE "discard"]
       ELSE /\ UNCHANGED <<generated_schedules, performance_history>>
            /\ lastOp' = [op |-> "schedule", route |-> "none"]
    /\ lastExec' = NoExec
    /\ UNCHANGED <<now, fleet, active_decisions, decision_history,
                   decision_counter, feedback, executed>>
    /\ UNCHANGED <<confidence_threshold, auto_execution_threshold>>
    /\ UNCHANGED optimizerVars
    /\ UNCHANGED serviceVars

\* generate_schedule_manually (POST /scheduler/generate) from the generation
\* of the schedule on; the two background tasks it queues are run as part of
\* the request.
GenerateScheduleManually(force_generate, generated, ok) ==
    /\ Len(generated_schedules) < MaxSchedules
    /\ IF generated # {}
       THEN LET confidence == TheDate(generated)
                auto == force_generate \/ confidence >= auto_execution_threshold
            IN
            /\ generated_schedules' = Append(generated_schedules, confidence)
            /\ performance_history' =
                 IF auto
                 THEN ExecuteScheduleAutomatically(performance_history, confidence, ok)
                 ELSE performance_history
            /\ lastOp' = [op |-> "generate",
                          route |-> IF auto THEN "auto_execute"
                                    ELSE IF confidence >= confidence_threshold
                                    THEN "request_approval"
                                    ELSE "discard"]
       ELSE /\ UNCHANGED <<generated_schedules, performance_history>>
            /\ lastOp' = [op |-> "generate", route |-> "none"]
    /\ lastExec' = NoExec
    /\ UNCHANGED <<now, fleet, active_decisions, decision_history,
                   decision_counter, feedback, executed>>
    /\ UNCHANGED <<confidence_threshold, auto_execution_threshold>>
    /\ UNCHANGED optimizerVars
    /\ UNCHANGED serviceVars

RECURSIVE CountSuccessful(_)
\* sum(1 for p in recent_performance if p.get('actual_performance', 0.8) > 0.7)
CountSuccessful(recent) ==
    IF recent = <<>> THEN 0
    ELSE LET p == Head(recent)
             actual == IF p.actual_performance = {} THEN DefaultActualPerformance
                       ELSE TheDate(p.actual_performance)
         IN  (IF actual > SuccessCut THEN 1 ELSE 0) + CountSuccessful(Tail(recent))

\* self.performance_history[-20:]
LastEntries(history, n) ==
    SubSeq(history, Max(1, Len(history) - n + 1), Len(history))

\* Adaptation over the whole history instead of the last 20 entries.
OptimizeOverWholeHistory(history, ct, aet) ==
    IF Len(history) < MinHistoryForAdaptation THEN [ct |-> ct, aet |-> aet]
    ELSE LET recent == history
             successes == CountSuccessful(recent)
         IN  IF 10 * successes > 9 * Len(recent)
             THEN [ct |-> Max(ConfidenceFloor, ct - 1),
                   aet |-> Max(AutoExecutionFloor, aet - 1)]
             ELSE IF 10 * successes < 7 * Len(recent)
             THEN [ct |-> Min(ConfidenceCeiling, ct + 1),
                   aet |-> Min(AutoExecutionCeiling, aet + 1)]
             ELSE [ct |-> ct, aet |-> aet]

\* Adaptation that does not clamp the thresholds.
OptimizeWithoutClamp(history, ct, aet) ==
    IF Len(history) < MinHistoryForAdaptation THEN [ct |-> ct, aet |-> aet]
    ELSE LET recent == LastEntries(history, AdaptationWindow)
             successes == CountSuccessful(recent)
         IN  IF 10 * successes > 9 * Len(recent)
             THEN [ct |-> ct - 1, aet |-> aet - 1]
             ELSE IF 10 * successes < 7 * Len(recent)
             THEN [ct |-> ct + 1, aet |-> aet + 1]
             ELSE [ct |-> ct, aet |-> aet]

\* _optimize_scheduling_parameters: the new (confidence_threshold,
\* auto_execution_threshold).  success_rate = successes / len(recent) is
\* compared with 0.9 and 0.7 by cross-multiplication.
OptimizeSchedulingParameters(history, ct, aet) ==
    IF Len(history) < MinHistoryForAdaptation THEN [ct |-> ct, aet |-> aet]
    ELSE LET recent == LastEntries(history, AdaptationWindow)
             successes == CountSuccessful(recent)
         IN  IF 10 * successes > 9 * Len(recent)
             THEN [ct |-> Max(ConfidenceFloor, ct - 1),
                   aet |-> Max(AutoExecutionFloor, aet - 1)]
             ELSE IF 10 * successes < 7 * Len(recent)
             THEN [ct |-> Min(ConfidenceCeiling, ct + 1),
                   aet |-> Min(AutoExecutionCeiling, aet + 1)]
             ELSE [ct |-> ct, aet |-> aet]

\* One pass of the body of _adaptive_learning_loop (_update_demand_patterns
\* only logs).  lastOp keeps the thresholds the tick started from.
AdaptiveLearningLoop ==
    /\ LET new == OptimizeSchedulingParameters(performance_history,
                                               confidence_threshold,
                                               auto_execution_threshold)
       IN  /\ confidence_threshold' = new.ct
           /\ auto_execution_threshold' = new.aet
    /\ lastOp' = [op |-> "adapt", ct |-> confidence_threshold,
                  aet |-> auto_execution_threshold]
    /\ lastExec' = NoExec
    /\ UNCHANGED <<now, fleet, active_decisions, decision_history,
                   decision_counter, feedback, executed>>
    /\ UNCHANGED <<generated_schedules, performance_history>>
    /\ UNCHANGED optimizerVars
    /\ UNCHANGED serviceVars

Confidences == {60, 80, 90}

SchedulingTick ==
    \E emergency \in BOOLEAN, generated \in {{}} \cup {{c} : c \in Confidences},
       ok \in BOOLEAN :
        ContinuousSchedulingLoop(now, emergency, generated, ok)

ManualGenerationRequest ==
    \E force_generate \in BOOLEAN, generated \in {{}} \cup {{c} : c \in Confidences},
       ok \in BOOLEAN :
        GenerateScheduleManually(force_generate, generated, ok)

AdaptiveTick == AdaptiveLearningLoop

Repeat(x, n) == [i \in 1..n |-> x]

PerformanceRecord(actual) ==
    [confidence |-> 90, auto_executed |-> TRUE, actual_performance |-> actual]

\* The performance histories a run starts from: `old' failed executions, then
\* `good' executions recorded above the success cut, then `bad' ones recorded
\* below it, then `plain' ones with no recorded outcome.
HistoryInputs ==
    {Repeat(PerformanceRecord({50}), old) \o Repeat(PerformanceRecord({90}), good)
       \o Repeat(PerformanceRecord({50}), bad) \o Repeat(PerformanceRecord({}), plain) :
        old \in {0, MaxOld}, good \in 0..MaxGood, bad \in 0..MaxBad, plain \in {0, 1}}

InitSched ==
    /\ now = 0
    /\ fleet = <<>>
    /\ active_decisions = <<>>
    /\ decision_history = <<>>
    /\ decision_counter = 0
    /\ feedback = <<>>
    /\ executed = {}
    /\ lastExec = NoExec
    /\ generated_schedules = <<>>
    /\ performance_history \in HistoryInputs
    /\ confidence_threshold = 75
    /\ auto_execution_threshold = 85
    /\ optimizer = NoOptimization
    /\ stop_requested = FALSE
    /\ active_jobs = <<>>
    /\ loop_tasks = TasksCreated
    /\ telemetry_history = <<>>
    /\ lastOp = [op |-> "init"]

NextSched ==
    \/ SchedulingTick
    \/ ManualGenerationRequest
    \/ AdaptiveTick

SpecSched == InitSched /\ [][NextSched]_vars

----------------------------------------------------------------------------
(* A long run of the evaluator: one trainset whose fitness certificate has *)
(* expired and that nobody takes out of service, no trained success model  *)
(* (the prediction is the 0.5 fallback), the clock one minute further at   *)
(* every tick.                                                             *)

InitRings ==
    /\ now = 0
    /\ fleet = <<Trainset("TS001", "AVAILABLE", {-1}, {})>>
    /\ active_decisions = <<>>
    /\ decision_history = <<>>
    /\ decision_counter = 0
    /\ feedback = <<>>
    /\ executed = {}
    /\ lastExec = NoExec
    /\ generated_schedules = <<>>
    /\ performance_history = <<>>
    /\ confidence_threshold = 75
    /\ auto_execution_threshold = 85
    /\ optimizer = NoOptimization
    /\ stop_requested = FALSE
    /\ active_jobs = <<>>
    /\ loop_tasks = TasksCreated
    /\ telemetry_history = <<>>
    /\ lastOp = [op |-> "init"]

NextRings == EvaluateSystemState(now + 1, 50, RingRun)

SpecRings == InitRings /\ [][NextRings]_vars

----------------------------------------------------------------------------
(* Properties of the decision engine *)

EventsOfTick == {lastExec.events[i] : i \in 1..Len(lastExec.events)}

HandlerEvents == {e \in EventsOfTick : e.ev = "handler"}

ReturnedEvents == {e \in EventsOfTick : e.ev = "returned"}

ActiveSet == Range(active_decisions)

AfterExecutorTick == lastOp.op = "execute"

AfterEvaluatorTick == lastOp.op = "evaluate"

\* C1: a decision that requires human approval is passed to an execution
\* handler only when the approval mark is set on it.
C1_ApprovalBeforeExecution ==
    \A e \in HandlerEvents :
        e.decision.requires_human_approval => e.decision.approved

\* An executor tick has run the handler of an approved decision that
\* requires approval.
C1_WitnessApprovedExecuted ==
    /\ AfterExecutorTick
    /\ \E e \in HandlerEvents :
          e.decision.requires_human_approval /\ e.decision.approved

\* An executor tick has run a handler and has left alone a decision that
\* requires approval, has no approval mark and is within its deadline.
C1_Witness ==
    /\ AfterExecutorTick
    /\ HandlerEvents # {}
    /\ \E d \in ActiveSet :
          /\ d.requires_human_approval /\ ~d.approved
          /\ lastExec.time <= d.execution_deadline
          /\ DecisionKey(d) \notin executed

\* C2: an emergency-response decision in the active set is executed by the
\* first executor tick that starts before its deadline, whatever else is in
\* the active set: after an executor tick that started no later than the
\* deadline of an emergency decision, that decision has been executed.
C2_EmergencyExecutedByFirstTick ==
    AfterExecutorTick =>
        \A d \in ActiveSet :
            (d.decision_type = "emergency_response"
             /\ lastExec.time <= d.execution_deadline)
                => DecisionKey(d) \in executed

\* C3: every decision the emergency rule emits is an emergency-response,
\* critical, confidence 1.0 decision that needs no approval, affects exactly
\* the one trainset it was emitted for (not out of order, fitness expiry
\* today or earlier) and has deadline = creation time + 5 minutes.
C3_EmergencyDecisionShape ==
    AfterEvaluatorTick =>
        \A i \in 1..Len(lastOp.emitted) :
            LET d == lastOp.emitted[i] IN
            d.decision_id[1] = "EMERGENCY_FITNESS" =>
                /\ d.decision_type = "emergency_response"
                /\ d.urgency = "critical"
                /\ d.confidence = 100
                /\ d.requires_human_approval = FALSE
                /\ d.timestamp = now
                /\ d.execution_deadline = d.timestamp + 5
                /\ Len(d.affected_trainsets) = 1
                /\ \E k \in 1..Len(fleet) :
                      /\ fleet[k].trainset_id = d.affected_trainsets[1]
                      /\ fleet[k].status # "OUT_OF_ORDER"
                      /\ fleet[k].fitness_expiry_date # {}
                      /\ TheDate(fleet[k].fitness_expiry_date) <= DateOf(now)

\* An evaluator tick has emitted emergency decisions for two trainsets at once.
C3_Witness ==
    /\ AfterEvaluatorTick
    /\ Cardinality({i \in 1..Len(lastOp.emitted) :
                      lastOp.emitted[i].decision_id[1] = "EMERGENCY_FITNESS"}) = 2

\* C4: no executor tick passes a decision to a handler when the tick's
\* current time is later than the decision's deadline, approved or not.
C4_NoExecutionAfterDeadline ==
    \A e \in HandlerEvents : lastExec.time <= e.decision.execution_deadline

\* An executor tick has run a handler while a decision past its deadline was
\* in the active set.
C4_Witness ==
    /\ AfterExecutorTick
    /\ HandlerEvents # {}
    /\ \E d \in ActiveSet : lastExec.time > d.execution_deadline

\* C5: a decision whose deadline passes before it has been executed is
\* dropped: after the next executor tick it is not in the active set.
C5_ExpiredDecisionsDropped ==
    AfterExecutorTick =>
        \A d \in ActiveSet :
            ~(lastExec.time > d.execution_deadline /\ DecisionKey(d) \notin executed)

\* C6: when a handler has returned for a decision, the decision is no longer
\* in the active set at the end of the same executor tick.
C6_RemovedAfterHandlerReturn ==
    \A e \in ReturnedEvents :
        \A d \in ActiveSet : d.decision_id # e.decision.decision_id

\* C7: each return of a handler writes exactly one feedback record for the
\* decision, with success score 1.0 on success and 0.0 otherwise.
C7_OneFeedbackPerReturn ==
    \A i \in 1..Len(lastExec.events) :
        lastExec.events[i].ev = "returned" =>
            LET r == lastExec.events[i]
                written == {j \in 1..Len(lastExec.events) :
                              /\ lastExec.events[j].ev = "feedback"
                              /\ lastExec.events[j].decision = r.decision}
            IN  /\ Cardinality(written) = 1
                /\ \A j \in written : lastExec.events[j].ok = r.ok

----------------------------------------------------------------------------
(* Properties of the scheduler and of the history buffers *)

Last20 == {i \in 1..Len(performance_history) : i > Len(performance_history) - 20}

\* An execution counts as successful when its recorded actual performance is
\* above 0.7; one with no recorded outcome counts as 0.8.
RecordedSuccess(p) ==
    \/ p.actual_performance = {}
    \/ \E a \in p.actual_performance : a > 70

SuccessesOfLast20 ==
    Cardinality({i \in Last20 : RecordedSuccess(performance_history[i])})

LengthOfLast20 == Cardinality(Last20)

AfterAdaptiveTick == lastOp.op = "adapt"

ThresholdsDecreased ==
    /\ confidence_threshold = Max(70, lastOp.ct - 1)
    /\ auto_execution_threshold = Max(80, lastOp.aet - 1)

ThresholdsIncreased ==
    /\ confidence_threshold = Min(85, lastOp.ct + 1)
    /\ auto_execution_threshold = Min(95, lastOp.aet + 1)

ThresholdsUnchanged ==
    /\ confidence_threshold = lastOp.ct
    /\ auto_execution_threshold = lastOp.aet

AdaptedByRate ==
    IF 10 * SuccessesOfLast20 > 9 * LengthOfLast20 THEN ThresholdsDecreased
    ELSE IF 10 * SuccessesOfLast20 < 7 * LengthOfLast20 THEN ThresholdsIncreased
    ELSE ThresholdsUnchanged

\* C8: the decision-history buffer, the generated-schedules buffer and the
\* scheduler's performance-history buffer each hold at most 1,000 entries.
C8_HistoryBuffersCapped ==
    /\ Len(decision_history) <= 1000
    /\ Len(generated_schedules) <= 1000
    /\ Len(performance_history) <= 1000

\* C9: from the initial thresholds, after any number of adaptive-loop ticks
\* over any performance history, 0.70 <= confidence_threshold <= 0.85 and
\* 0.80 <= auto_execution_threshold <= 0.95.
C9_ThresholdBounds ==
    /\ 70 <= confidence_threshold /\ confidence_threshold <= 85
    /\ 80 <= auto_execution_threshold /\ auto_execution_threshold <= 95

\* An adaptive tick has run with a threshold already at a floor or a ceiling
\* and with a success rate that pushes against it.
C9_Witness ==
    /\ lastOp.op = "adapt"
    /\ Len(performance_history) >= 10
    /\ \/ lastOp.ct = 70 /\ confidence_threshold = 70
          /\ 10 * SuccessesOfLast20 > 9 * LengthOfLast20
       \/ lastOp.ct = 85 /\ confidence_threshold = 85
          /\ 10 * SuccessesOfLast20 < 7 * LengthOfLast20

\* C10 as stated: one adaptive tick takes the success rate of the last 20
\* executed schedules; above 0.9 both thresholds go down by 0.01 (not below
\* 0.70 and 0.80), below 0.7 both go up by 0.01 (not above 0.85 and 0.95),
\* otherwise both stay.
C10_AdaptationByRate ==
    (AfterAdaptiveTick /\ performance_history # <<>>) => AdaptedByRate

\* C10 amended: the adaptation by rate happens when the performance history
\* holds at least 10 executions; with fewer the thresholds stay.
C10_AdaptationByRateFromTenOn ==
    AfterAdaptiveTick =>
        IF Len(performance_history) < 10 THEN ThresholdsUnchanged
        ELSE AdaptedByRate

\* An adaptive tick has raised the thresholds on a history longer than the
\* window whose last 20 entries have a success rate below 0.7.
C10_Witness ==
    /\ AfterAdaptiveTick
    /\ Len(performance_history) > 20
    /\ 10 * SuccessesOfLast20 < 7 * LengthOfLast20
    /\ confidence_threshold = lastOp.ct + 1
    /\ auto_execution_threshold = lastOp.aet + 1

\* An adaptive tick has lowered the thresholds on a history whose last 20
\* entries are successes and whose older entries are failures.
C10_WitnessWindow ==
    /\ AfterAdaptiveTick
    /\ Len(performance_history) > 20
    /\ SuccessesOfLast20 = 20
    /\ \E i \in 1..Len(performance_history) :
          ~RecordedSuccess(performance_history[i])
    /\ confidence_threshold = lastOp.ct - 1

----------------------------------------------------------------------------
(* Routing of generated schedules *)

\* The last step generated a schedule and routed it.
AfterRouting == lastOp.op \in {"schedule", "generate"} /\ lastOp.route # "none"

\* The confidence of the schedule generated last.
RoutedConfidence == generated_schedules[Len(generated_schedules)]

\* C11: a generated schedule is routed by its confidence against the
\* thresholds current at routing time: auto-execute iff confidence >=
\* auto_execution_threshold, request-approval iff confidence_threshold <=
\* confidence < auto_execution_threshold, discard otherwise; so a schedule
\* with confidence below auto_execution_threshold is never auto-executed.
C11_RoutedByConfidence ==
    AfterRouting =>
        /\ lastOp.route = "auto_execute"
              <=> RoutedConfidence >= auto_execution_threshold
        /\ lastOp.route = "request_approval"
              <=> (/\ confidence_threshold <= RoutedConfidence
                   /\ RoutedConfidence < auto_execution_threshold)
        /\ lastOp.route = "discard"
              <=> (/\ RoutedConfidence < confidence_threshold
                   /\ RoutedConfidence < auto_execution_threshold)

\* What holds of the scheduling loop alone: its routing follows the
\* confidence.
C11_SchedulingLoopRoutedByConfidence ==
    (AfterRouting /\ lastOp.op = "schedule") =>
        /\ lastOp.route = "auto_execute"
              <=> RoutedConfidence >= auto_execution_threshold
        /\ lastOp.route = "request_approval"
              <=> (/\ confidence_threshold <= RoutedConfidence
                   /\ RoutedConfidence < auto_execution_threshold)
        /\ lastOp.route = "discard"
              <=> RoutedConfidence < confidence_threshold

----------------------------------------------------------------------------
(* The Assignment Optimizer (app/optimization/engine.py)                   *)
(*                                                                         *)
(* An assignment (a Python dict trainset_id -> position) is the sequence   *)
(* of its items in insertion order.  Scores are exact: they are held in    *)
(* sixtieths of a point, which makes the weights 0.6 and 0.3 and the mean  *)
(* mileage of a fleet of up to four trainsets whole numbers when mileages  *)
(* are multiples of 1000 km.  The random number generator is a             *)
(* full-period linear congruential generator whose state after seeding is  *)
(* the seed; the iteration order of a set of trainset ids follows the      *)
(* hashes of the ids, which the interpreter draws afresh for each process. *)

\* Bounds: the request parameters and the generator of the modelled calls.
PopulationSize == 10
Generations == 2
MutationRatePercent == 10
InitialTemperature == 1000
CoolingNumerator == 1
CoolingDenominator == 2
MinTemperature == 200
MaxIterations == 4
RngModulus == 64

MAX_STABLING_POSITIONS == 30

ScoreScale == 60

MileageBalanceWeightTenths == 6
BrandingPriorityWeightTenths == 3

TrainsetData(id, status, fitness_valid, jobs, mileage, branding) ==
    [trainset_id |-> id, status |-> status, fitness_valid |-> fitness_valid,
     has_high_priority_jobs |-> jobs, current_mileage |-> mileage,
     branding_priority |-> branding]

OptimizationRequest(algorithm, max_trainsets) ==
    [algorithm |-> algorithm, max_trainsets |-> max_trainsets,
     parameters |-> [population_size |-> PopulationSize,
                     generations |-> Generations,
                     mutation_rate |-> MutationRatePercent,
                     initial_temperature |-> InitialTemperature,
                     cooling_rate |-> <<CoolingNumerator, CoolingDenominator>>,
                     min_temperature |-> MinTemperature,
                     max_iterations |-> MaxIterations]]

Item(id, position) == [trainset_id |-> id, position |-> position]

Keys(assignment) == {assignment[i].trainset_id : i \in 1..Len(assignment)}

Values(assignment) == {assignment[i].position : i \in 1..Len(assignment)}

\* assignment[id], for id among the keys
PositionOf(assignment, id) ==
    LET i == CHOOSE k \in 1..Len(assignment) : assignment[k].trainset_id = id
    IN  assignment[i].position

\* assignment[id] = position: a key already present keeps its place.
SetItem(assignment, id, position) ==
    IF id \in Keys(assignment)
    THEN [i \in 1..Len(assignment) |->
            IF assignment[i].trainset_id = id THEN Item(id, position)
            ELSE assignment[i]]
    ELSE Append(assignment, Item(id, position))

\* list(range(n))
RangeList(n) == [i \in 1..n |-> i - 1]

\* a list without its first occurrence of x (list.remove)
RECURSIVE RemoveFirst(_, _)
RemoveFirst(list, x) ==
    IF list = <<>> THEN <<>>
    ELSE IF Head(list) = x THEN Tail(list)
    ELSE <<Head(list)>> \o RemoveFirst(Tail(list), x)

RECURSIVE SumMileage(_)
SumMileage(trainsets) ==
    IF trainsets = <<>> THEN 0
    ELSE Head(trainsets).current_mileage + SumMileage(Tail(trainsets))

Abs(x) == IF x < 0 THEN -x ELSE x

\* trainset_dict.get(trainset_id): the last trainset of that id, or none
TrainsetDictGet(trainsets, id) ==
    LET hits == {i \in 1..Len(trainsets) : trainsets[i].trainset_id = id}
    IN  IF hits = {} THEN {}
        ELSE {trainsets[CHOOSE i \in hits : \A k \in hits : k <= i]}

\* The contribution with the mileage and branding terms at full weight and
\* no position term.
PairScoreUnweighted(trainset, position, trainsets) ==
    LET n == Len(trainsets)
        diff_n == Abs(n * trainset.current_mileage - SumMileage(trainsets))
        fitness == IF ~trainset.fitness_valid THEN -1000 * ScoreScale
                   ELSE 50 * ScoreScale
        jobs == IF trainset.has_high_priority_jobs THEN -500 * ScoreScale ELSE 0
        mileage_score == Max(0, 100 * ScoreScale
                                  - (ScoreScale * diff_n) \div (1000 * n))
        branding_score == trainset.branding_priority * 20 * ScoreScale
    IN  100 * ScoreScale + fitness + jobs + mileage_score + branding_score

\* The contribution of one item to _calculate_solution_score, in sixtieths.
\* avg_mileage is the mean over the trainsets passed in, assigned or not:
\* with n trainsets, mileage_diff = |n * mileage - sum| / n.
PairScore(trainset, position, trainsets) ==
    LET n == Len(trainsets)
        diff_n == Abs(n * trainset.current_mileage - SumMileage(trainsets))
        fitness == IF ~trainset.fitness_valid THEN -1000 * ScoreScale
                   ELSE 50 * ScoreScale
        jobs == IF trainset.has_high_priority_jobs THEN -500 * ScoreScale ELSE 0
        mileage_weight == (ScoreScale * MileageBalanceWeightTenths) \div 10
        mileage_score == Max(0, 100 * mileage_weight
                                  - (mileage_weight * diff_n) \div (1000 * n))
        branding_weight == (ScoreScale * BrandingPriorityWeightTenths) \div 10
        branding_score == trainset.branding_priority * 20 * branding_weight
        position_score == Max(0, 50 - position * 2) * ScoreScale
    IN  100 * ScoreScale + fitness + jobs + mileage_score + branding_score
          + position_score

\* The score as the mean of the contributions instead of their sum.
RECURSIVE CalculateMeanContribution(_, _)
CalculateMeanContribution(assignments, trainsets) ==
    IF assignments = <<>> THEN 0
    ELSE LET n == Len(assignments)
             last == assignments[n]
             found == TrainsetDictGet(trainsets, last.trainset_id)
             before == CalculateMeanContribution(SubSeq(assignments, 1, n - 1), trainsets)
         IN  IF found = {} THEN before
             ELSE (before * (n - 1) + PairScore(TheDate(found), last.position, trainsets))
                    \div n

RECURSIVE CalculateSolutionScore(_, _)
\* _calculate_solution_score, in sixtieths
CalculateSolutionScore(assignments, trainsets) ==
    IF assignments = <<>> THEN 0
    ELSE LET first == Head(assignments)
             found == TrainsetDictGet(trainsets, first.trainset_id)
             rest == CalculateSolutionScore(Tail(assignments), trainsets)
         IN  IF found = {} THEN rest
             ELSE PairScore(TheDate(found), first.position, trainsets) + rest

\* _validate_input: the message of the ValueError raised, or none
ValidateInput(request, trainsets) ==
    IF trainsets = <<>> THEN {"No trainsets provided for optimization"}
    ELSE IF request.max_trainsets <= 0 THEN {"max_trainsets must be positive"}
    ELSE IF request.max_trainsets > MAX_STABLING_POSITIONS
    THEN {"max_trainsets cannot exceed MAX_STABLING_POSITIONS"}
    ELSE IF \E i \in 1..Len(trainsets) : trainsets[i].trainset_id = ""
    THEN {"trainset_id cannot be empty"}
    ELSE IF \E i \in 1..Len(trainsets) : trainsets[i].current_mileage < 0
    THEN {"Invalid mileage for trainset"}
    ELSE {}

\* min(request.max_trainsets, self.settings.MAX_STABLING_POSITIONS)
MaxPositions(request) == Min(request.max_trainsets, MAX_STABLING_POSITIONS)

----------------------------------------------------------------------------
(* The exact driver *)

\* The values of the Boolean variables trainset_vars[i][j].
CpSatVariables(trainsets, max_positions) ==
    [(1..Len(trainsets)) \X (0..(max_positions - 1)) -> {0, 1}]

RECURSIVE SumOver(_, _)
\* the sum of term[e] over the elements e of the finite set S
SumOver(S, term) ==
    IF S = {} THEN 0
    ELSE LET e == CHOOSE x \in S : TRUE
         IN  term[e] + SumOver(S \ {e}, term)

\* The constraints added to the model, fitness and job cards included.
CpSatConstraints(x, trainsets, max_positions) ==
    LET I == 1..Len(trainsets)
        J == 0..(max_positions - 1)
    IN  /\ \A i \in I : SumOver(J, [j \in J |-> x[<<i, j>>]]) <= 1
        /\ \A j \in J : SumOver(I, [i \in I |-> x[<<i, j>>]]) <= 1
        /\ \A i \in I : ~trainsets[i].fitness_valid =>
                            \A j \in J : x[<<i, j>>] = 0
        /\ \A i \in I : trainsets[i].has_high_priority_jobs =>
                            \A j \in J : x[<<i, j>>] = 0

\* The coefficient of trainset_vars[i][j] in the objective (whole points).
ObjectiveCoefficient(trainset, j) ==
    100 + (IF trainset.fitness_valid THEN 50 ELSE 0)
        + Max(0, 50 - trainset.current_mileage \div 1000)
        + trainset.branding_priority * 10
        + Max(0, 20 - j)

CpSatObjective(x, trainsets, max_positions) ==
    LET IJ == (1..Len(trainsets)) \X (0..(max_positions - 1))
    IN  SumOver(IJ, [ij \in IJ |->
                        ObjectiveCoefficient(trainsets[ij[1]], ij[2]) * x[ij]])

\* What solver.Solve can leave in the variables: with status OPTIMAL any
\* solution of the constraints of greatest objective, with status FEASIBLE
\* (time limit reached first) any solution of the constraints.
CpSatSolve(status, trainsets, max_positions) ==
    LET solutions == {x \in CpSatVariables(trainsets, max_positions) :
                        CpSatConstraints(x, trainsets, max_positions)}
        values == {CpSatObjective(x, trainsets, max_positions) : x \in solutions}
        best == CHOOSE v \in values : \A w \in values : w <= v
    IN  IF status = "OPTIMAL"
        THEN {x \in solutions : CpSatObjective(x, trainsets, max_positions) = best}
        ELSE IF status = "FEASIBLE" THEN solutions
        ELSE {}

RECURSIVE ExtractAssignments(_, _, _, _)
\* for trainset in trainsets: the first j with solver.Value(...) == 1
ExtractAssignments(x, trainsets, i, max_positions) ==
    IF i > Len(trainsets) THEN <<>>
    ELSE LET ones == {j \in 0..(max_positions - 1) : x[<<i, j>>] = 1}
             rest == ExtractAssignments(x, trainsets, i + 1, max_positions)
         IN  IF ones = {} THEN rest
             ELSE <<Item(trainsets[i].trainset_id,
                         CHOOSE j \in ones : \A k \in ones : j <= k)>> \o rest

OptimizationSolution(assignments, score, algorithm, status) ==
    [trainset_assignments |-> assignments, score |-> score,
     algorithm_used |-> algorithm, solver_status |-> status]

\* _solve_with_cp_sat for one outcome x of the solver
CpSatSolution(status, x, request, trainsets) ==
    LET assignments == ExtractAssignments(x, trainsets, 1, MaxPositions(request))
    IN  OptimizationSolution(assignments,
                             CalculateSolutionScore(assignments, trainsets),
                             "constraint_programming", status)

\* The solution returned when the solver reports neither OPTIMAL nor FEASIBLE.
CpSatNoSolution(status) ==
    OptimizationSolution(<<>>, 0, "constraint_programming", status)

----------------------------------------------------------------------------
(* The random number generator *)

\* The state after one draw.
NextRng(rng) == (13 * rng + 5) % RngModulus

\* np.random.random(): the float k/16 for the k returned
RandomSixteenth(rng) == rng \div (RngModulus \div 16)

\* np.random.random() < percent / 100
RandomBelow(rng, percent) == 100 * RandomSixteenth(rng) < 16 * percent

\* np.random.random() > percent / 100
RandomAbove(rng, percent) == 100 * RandomSixteenth(rng) > 16 * percent

\* np.random.randint(0, high)
RandInt(rng, high) == RandomSixteenth(rng) % high

\* np.random.choice(list)
RandomChoice(rng, list) == list[(RandomSixteenth(rng) % Len(list)) + 1]

\* -1000 * ln(k/16) for k in 1..15
NegLogThousandths ==
    <<2773, 2079, 1674, 1386, 1163, 981, 827, 693, 575, 470, 375, 288, 208,
      134, 65>>

\* np.random.random() < np.exp(delta / temperature), delta <= 0 in sixtieths
\* and temperature in hundredths: k/16 < exp(x) iff k = 0 or -x < -ln(k/16).
RandomBelowExp(rng, delta, temperature) ==
    LET k == RandomSixteenth(rng)
    IN  \/ k = 0
        \/ (-delta) * 5000 < 3 * temperature * NegLogThousandths[k]

\* The order in which a set of trainset ids is iterated: that of the hashes.
RECURSIVE SetOrder(_, _)
SetOrder(S, hash_order) ==
    IF hash_order = <<>> THEN <<>>
    ELSE IF Head(hash_order) \in S
    THEN <<Head(hash_order)>> \o SetOrder(S, Tail(hash_order))
    ELSE SetOrder(S, Tail(hash_order))

----------------------------------------------------------------------------
(* The population driver *)

RECURSIVE RandomAssignmentOfAny(_, _, _, _)
\* The random assignment without the test of the fitness certificate and of
\* the job cards.
RandomAssignmentOfAny(trainsets, available_positions, assignment, rng) ==
    IF trainsets = <<>> THEN [assignment |-> assignment, rng |-> rng]
    ELSE LET trainset == Head(trainsets) IN
         IF available_positions # <<>>
         THEN IF RandomAbove(rng, 30)
              THEN LET pos == RandomChoice(NextRng(rng), available_positions)
                   IN  RandomAssignmentOfAny(Tail(trainsets),
                                        RemoveFirst(available_positions, pos),
                                        Append(assignment,
                                               Item(trainset.trainset_id, pos)),
                                        NextRng(NextRng(rng)))
              ELSE RandomAssignmentOfAny(Tail(trainsets), available_positions,
                                    assignment, NextRng(rng))
         ELSE RandomAssignmentOfAny(Tail(trainsets), available_positions,
                               assignment, rng)

RECURSIVE RandomAssignment(_, _, _, _)
\* The loop over the trainsets that creates one random assignment; returns
\* the assignment and the state of the generator after it.
RandomAssignment(trainsets, available_positions, assignment, rng) ==
    IF trainsets = <<>> THEN [assignment |-> assignment, rng |-> rng]
    ELSE LET trainset == Head(trainsets) IN
         IF /\ available_positions # <<>>
            /\ trainset.fitness_valid
            /\ ~trainset.has_high_priority_jobs
         THEN IF RandomAbove(rng, 30)
              THEN LET pos == RandomChoice(NextRng(rng), available_positions)
                   IN  RandomAssignment(Tail(trainsets),
                                        RemoveFirst(available_positions, pos),
                                        Append(assignment,
                                               Item(trainset.trainset_id, pos)),
                                        NextRng(NextRng(rng)))
              ELSE RandomAssignment(Tail(trainsets), available_positions,
                                    assignment, NextRng(rng))
         ELSE RandomAssignment(Tail(trainsets), available_positions,
                               assignment, rng)

RECURSIVE InitialPopulation(_, _, _, _)
\* for _ in range(population_size): ... population.append(assignment)
InitialPopulation(count, request, trainsets, rng) ==
    IF count = 0 THEN [population |-> <<>>, rng |-> rng]
    ELSE LET one == RandomAssignment(trainsets, RangeList(MaxPositions(request)),
                                     <<>>, rng)
             rest == InitialPopulation(count - 1, request, trainsets, one.rng)
         IN  [population |-> <<one.assignment>> \o rest.population,
              rng |-> rest.rng]

\* best_solution = None, best_score = -inf
NoBest == [solution |-> <<>>, score |-> 0]

RECURSIVE TrackBest(_, _, _)
\* if score > best_score: best_score = score; best_solution = assignment
TrackBest(population, trainsets, best) ==
    IF population = <<>> THEN best
    ELSE LET assignment == Head(population)
             score == CalculateSolutionScore(assignment, trainsets)
         IN  TrackBest(Tail(population), trainsets,
                       IF best.solution = <<>> \/ score > best.score
                       THEN [solution |-> <<assignment>>, score |-> score]
                       ELSE best)

RECURSIVE InsertByScore(_, _, _)
\* e goes behind every entry whose score is at least its own
InsertByScore(sorted, e, trainsets) ==
    IF sorted = <<>> THEN <<e>>
    ELSE IF CalculateSolutionScore(Head(sorted), trainsets)
              >= CalculateSolutionScore(e, trainsets)
    THEN <<Head(sorted)>> \o InsertByScore(Tail(sorted), e, trainsets)
    ELSE <<e>> \o sorted

RECURSIVE SortByScore(_, _)
\* scored_population.sort(key=lambda x: x[1], reverse=True): stable
SortByScore(population, trainsets) ==
    IF population = <<>> THEN <<>>
    ELSE LET n == Len(population)
         IN  InsertByScore(SortByScore(SubSeq(population, 1, n - 1), trainsets),
                           population[n], trainsets)

RECURSIVE Crossover(_, _, _, _, _, _)
\* for trainset_id in all_trainsets: ...; returns the child, the positions
\* used and the state of the generator
Crossover(ids, parent1, parent2, child, used_positions, rng) ==
    IF ids = <<>>
    THEN [child |-> child, used_positions |-> used_positions, rng |-> rng]
    ELSE LET trainset_id == Head(ids)
             from == IF RandomBelow(rng, 50) /\ trainset_id \in Keys(parent1)
                     THEN {PositionOf(parent1, trainset_id)}
                     ELSE IF trainset_id \in Keys(parent2)
                     THEN {PositionOf(parent2, trainset_id)}
                     ELSE {}
             take == from \ used_positions
         IN  IF take = {}
             THEN Crossover(Tail(ids), parent1, parent2, child, used_positions,
                            NextRng(rng))
             ELSE Crossover(Tail(ids), parent1, parent2,
                            SetItem(child, trainset_id, TheDate(take)),
                            used_positions \cup take, NextRng(rng))

RECURSIVE FreePositions(_, _)
\* [p for p in range(max_positions) if p not in used_positions]
FreePositions(positions, used_positions) ==
    IF positions = <<>> THEN <<>>
    ELSE IF Head(positions) \in used_positions
    THEN FreePositions(Tail(positions), used_positions)
    ELSE <<Head(positions)>> \o FreePositions(Tail(positions), used_positions)

KeyList(assignment) == [i \in 1..Len(assignment) |-> assignment[i].trainset_id]

\* The mutation that moves the trainset to any position, free or not.
MutationToAnyPosition(child, used_positions, max_positions, mutation_rate, rng) ==
    IF RandomBelow(rng, mutation_rate)
    THEN IF child # <<>>
         THEN LET rng1 == NextRng(rng)
                  trainset_to_mutate == RandomChoice(rng1, KeyList(child))
                  available_pos == RangeList(max_positions)
              IN  IF available_pos # <<>>
                  THEN [child |-> SetItem(child, trainset_to_mutate,
                                          RandomChoice(NextRng(rng1), available_pos)),
                        rng |-> NextRng(NextRng(rng1))]
                  ELSE [child |-> child, rng |-> NextRng(rng1)]
         ELSE [child |-> child, rng |-> NextRng(rng)]
    ELSE [child |-> child, rng |-> NextRng(rng)]

\* The mutation of a child; returns the child and the state of the generator.
Mutation(child, used_positions, max_positions, mutation_rate, rng) ==
    IF RandomBelow(rng, mutation_rate)
    THEN IF child # <<>>
         THEN LET rng1 == NextRng(rng)
                  trainset_to_mutate == RandomChoice(rng1, KeyList(child))
                  available_pos == FreePositions(RangeList(max_positions),
                                                 used_positions)
              IN  IF available_pos # <<>>
                  THEN [child |-> SetItem(child, trainset_to_mutate,
                                          RandomChoice(NextRng(rng1), available_pos)),
                        rng |-> NextRng(NextRng(rng1))]
                  ELSE [child |-> child, rng |-> NextRng(rng1)]
         ELSE [child |-> child, rng |-> NextRng(rng)]
    ELSE [child |-> child, rng |-> NextRng(rng)]

RECURSIVE Offspring(_, _, _, _, _, _)
\* while len(new_population) < population_size: ...
Offspring(new_population, scored_population, elite_size, request, hash_order, rng) ==
    IF Len(new_population) >= request.parameters.population_size
    THEN [population |-> new_population, rng |-> rng]
    ELSE LET parent1 == scored_population[RandInt(rng, elite_size * 2) + 1]
             rng1 == NextRng(rng)
             parent2 == scored_population[RandInt(rng1, elite_size * 2) + 1]
             crossed == Crossover(SetOrder(Keys(parent1) \cup Keys(parent2),
                                           hash_order),
                                  parent1, parent2, <<>>, {}, NextRng(rng1))
             mutated == Mutation(crossed.child, crossed.used_positions,
                                 MaxPositions(request),
                                 request.parameters.mutation_rate, crossed.rng)
         IN  Offspring(Append(new_population, mutated.child), scored_population,
                       elite_size, request, hash_order, mutated.rng)

\* The locals of the population driver after its initialisation.
GeneticInitial(request, trainsets, seed) ==
    LET init == InitialPopulation(request.parameters.population_size, request,
                                  trainsets, seed)
    IN  [rng |-> init.rng, population |-> init.population, generation |-> 0,
         best |-> NoBest]

\* One pass of the loop over the generations.
GeneticGeneration(run, request, trainsets, hash_order) ==
    LET best == TrackBest(run.population, trainsets, run.best)
        scored_population == SortByScore(run.population, trainsets)
        elite_size == request.parameters.population_size \div 10
        next == Offspring(SubSeq(scored_population, 1, elite_size),
                          scored_population, elite_size, request, hash_order,
                          run.rng)
    IN  [rng |-> next.rng, population |-> next.population,
         generation |-> run.generation + 1, best |-> best]

\* What the population driver returns: `if best_solution' is false for None
\* and for the empty assignment.
GeneticSolution(run) ==
    IF run.best.solution # <<>> /\ run.best.solution[1] # <<>>
    THEN OptimizationSolution(run.best.solution[1], run.best.score,
                              "genetic_algorithm", "")
    ELSE OptimizationSolution(<<>>, 0, "genetic_algorithm", "")

----------------------------------------------------------------------------
(* The local-search driver *)

\* The ordered pairs of different entries of a list.
OrderedPairs(list) ==
    LET n == Len(list)
        pair(k) == <<((k - 1) \div (n - 1)) + 1,
                     LET j == ((k - 1) % (n - 1)) + 1
                     IN  IF j >= ((k - 1) \div (n - 1)) + 1 THEN j + 1 ELSE j>>
    IN  [k \in 1..(n * (n - 1)) |-> <<list[pair(k)[1]], list[pair(k)[2]]>>]

RECURSIVE MovePositions(_, _, _)
\* [p for p in range(max_positions) if p not in used_positions or p == old_pos]
\* without old_pos
MovePositions(positions, used_positions, old_pos) ==
    IF positions = <<>> THEN <<>>
    ELSE IF Head(positions) \in used_positions \/ Head(positions) = old_pos
    THEN MovePositions(Tail(positions), used_positions, old_pos)
    ELSE <<Head(positions)>> \o MovePositions(Tail(positions), used_positions, old_pos)

\* The neighbour of the current solution; returns it and the state of the
\* generator.
Neighbor(current_solution, max_positions, rng) ==
    IF current_solution = <<>>
    THEN [solution |-> current_solution, rng |-> rng]
    ELSE LET modification_type ==
                 RandomChoice(rng, <<"swap", "move", "add", "remove">>)
             rng1 == NextRng(rng)
         IN  IF modification_type = "swap" /\ Len(current_solution) >= 2
             THEN LET trainsets_to_swap ==
                          RandomChoice(rng1, OrderedPairs(KeyList(current_solution)))
                      pos1 == PositionOf(current_solution, trainsets_to_swap[1])
                      pos2 == PositionOf(current_solution, trainsets_to_swap[2])
                  IN  [solution |->
                          SetItem(SetItem(current_solution,
                                          trainsets_to_swap[1], pos2),
                                  trainsets_to_swap[2], pos1),
                       rng |-> NextRng(rng1)]
             ELSE IF modification_type = "move"
             THEN LET trainset_to_move ==
                          RandomChoice(rng1, KeyList(current_solution))
                      rng2 == NextRng(rng1)
                      old_pos == PositionOf(current_solution, trainset_to_move)
                      targets == MovePositions(RangeList(max_positions),
                                               Values(current_solution), old_pos)
                  IN  IF targets # <<>>
                      THEN [solution |->
                               SetItem(current_solution, trainset_to_move,
                                       RandomChoice(rng2, targets)),
                            rng |-> NextRng(rng2)]
                      ELSE [solution |-> current_solution, rng |-> rng2]
             ELSE [solution |-> current_solution, rng |-> rng1]

\* The locals of the local-search driver before its first iteration.
AnnealingInitial(request, trainsets, seed) ==
    LET init == RandomAssignment(trainsets, RangeList(MaxPositions(request)),
                                 <<>>, seed)
        current_score == CalculateSolutionScore(init.assignment, trainsets)
    IN  [rng |-> init.rng, current_solution |-> init.assignment,
         current_score |-> current_score, best_solution |-> init.assignment,
         best_score |-> current_score,
         temperature |-> request.parameters.initial_temperature,
         iteration |-> 0]

\* A loop that goes on for as long as the temperature has not fallen below
\* the minimum.
AnnealingContinuesWhileHot(run, request) ==
    ~(run.temperature < request.parameters.min_temperature)

\* The loop goes on: the iterations are not used up and the temperature has
\* not fallen below the minimum.
AnnealingContinues(run, request) ==
    /\ run.iteration < request.parameters.max_iterations
    /\ ~(run.temperature < request.parameters.min_temperature)

\* One iteration of the loop.
AnnealingIteration(run, request, trainsets) ==
    LET neighbor == Neighbor(run.current_solution, MaxPositions(request), run.rng)
        neighbor_score == CalculateSolutionScore(neighbor.solution, trainsets)
        delta == neighbor_score - run.current_score
        accept == \/ delta > 0
                  \/ RandomBelowExp(neighbor.rng, delta, run.temperature)
        rng == IF delta > 0 THEN neighbor.rng ELSE NextRng(neighbor.rng)
        improved == accept /\ neighbor_score > run.best_score
    IN  [rng |-> rng,
         current_solution |-> IF accept THEN neighbor.solution
                              ELSE run.current_solution,
         current_score |-> IF accept THEN neighbor_score ELSE run.current_score,
         best_solution |-> IF improved THEN neighbor.solution
                           ELSE run.best_solution,
         best_score |-> IF improved THEN neighbor_score ELSE run.best_score,
         temperature |-> (run.temperature * request.parameters.cooling_rate[1])
                            \div request.parameters.cooling_rate[2],
         iteration |-> run.iteration + 1]

AnnealingSolution(run) ==
    OptimizationSolution(run.best_solution, run.best_score,
                         "simulated_annealing", "")

----------------------------------------------------------------------------
(* optimize_schedule, step by step *)

engineVars == <<now, fleet, active_decisions, decision_history,
                decision_counter, feedback, executed>>

SolverStatuses == {"OPTIMAL", "FEASIBLE", "UNKNOWN"}

\* A call of optimize_schedule(request, trainsets) that has not started.  The
\* second run named in runs, solutions and results is a run of the same call
\* from the same seed in a process of its own.
OptimizationCall(request, trainsets, seed, hash_orders) ==
    [phase |-> "called", request |-> request, trainsets |-> trainsets,
     seed |-> seed, hash_orders |-> hash_orders, algorithm |-> "",
     runs |-> <<>>, solutions |-> <<>>, results |-> <<>>, raised |-> "",
     validation |-> {}, drivers_run |-> 0]

\* The steps of the optimizer leave the engine and the scheduler alone.
OptimizerStep ==
    /\ lastOp' = [op |-> "optimize"]
    /\ UNCHANGED lastExec
    /\ UNCHANGED engineVars
    /\ UNCHANGED schedulerVars
    /\ UNCHANGED serviceVars

\* The entry of optimize_schedule: validation, then the choice of the driver.
\* When _validate_input raises, the handler of the exception reads the local
\* `algorithm', which is assigned only after the validation.
OptimizeScheduleEnter ==
    /\ optimizer.phase = "called"
    /\ LET error == ValidateInput(optimizer.request, optimizer.trainsets)
           algorithm == IF optimizer.request.algorithm = ""
                        THEN "constraint_programming"
                        ELSE optimizer.request.algorithm
       IN  IF error # {}
           THEN optimizer' = [optimizer EXCEPT !.phase = "raised",
                                               !.validation = error,
                                               !.raised = "UnboundLocalError"]
           ELSE optimizer' = [optimizer EXCEPT
                                !.algorithm = algorithm,
                                !.phase = IF algorithm = "genetic_algorithm"
                                          THEN "genetic_initial"
                                          ELSE IF algorithm = "simulated_annealing"
                                          THEN "annealing_initial"
                                          ELSE "cp_sat"]
    /\ OptimizerStep

SolveWithCpSat ==
    /\ optimizer.phase = "cp_sat"
    /\ \E status \in SolverStatuses :
         LET found == CpSatSolve(status, optimizer.trainsets,
                                 MaxPositions(optimizer.request))
         IN  IF found = {}
             THEN optimizer' = [optimizer EXCEPT
                                  !.phase = "solved",
                                  !.drivers_run = @ + 1,
                                  !.solutions = <<CpSatNoSolution(status),
                                                  CpSatNoSolution(status)>>]
             ELSE \E x \in found :
                    LET solution == CpSatSolution(status, x, optimizer.request,
                                                  optimizer.trainsets)
                    IN  optimizer' = [optimizer EXCEPT
                                        !.phase = "solved",
                                        !.drivers_run = @ + 1,
                                        !.solutions = <<solution, solution>>]
    /\ OptimizerStep

GeneticInitialise ==
    /\ optimizer.phase = "genetic_initial"
    /\ LET run == GeneticInitial(optimizer.request, optimizer.trainsets,
                                 optimizer.seed)
       IN  optimizer' = [optimizer EXCEPT !.phase = "genetic_loop",
                                          !.drivers_run = @ + 1,
                                          !.runs = <<run, run>>]
    /\ OptimizerStep

GeneticGenerationStep ==
    /\ optimizer.phase = "genetic_loop"
    /\ optimizer.runs[1].generation < optimizer.request.parameters.generations
    /\ optimizer' =
         [optimizer EXCEPT
            !.runs = [k \in 1..2 |->
                        GeneticGeneration(optimizer.runs[k], optimizer.request,
                                          optimizer.trainsets,
                                          optimizer.hash_orders[k])]]
    /\ OptimizerStep

GeneticReturn ==
    /\ optimizer.phase = "genetic_loop"
    /\ ~(optimizer.runs[1].generation < optimizer.request.parameters.generations)
    /\ optimizer' =
         [optimizer EXCEPT
            !.phase = "solved",
            !.solutions = [k \in 1..2 |-> GeneticSolution(optimizer.runs[k])]]
    /\ OptimizerStep

AnnealingInitialise ==
    /\ optimizer.phase = "annealing_initial"
    /\ LET run == AnnealingInitial(optimizer.request, optimizer.trainsets,
                                   optimizer.seed)
       IN  optimizer' = [optimizer EXCEPT !.phase = "annealing_loop",
                                          !.drivers_run = @ + 1,
                                          !.runs = <<run, run>>]
    /\ OptimizerStep

AnnealingStep ==
    /\ optimizer.phase = "annealing_loop"
    /\ AnnealingContinues(optimizer.runs[1], optimizer.request)
    /\ optimizer' =
         [optimizer EXCEPT
            !.runs = [k \in 1..2 |->
                        AnnealingIteration(optimizer.runs[k], optimizer.request,
                                           optimizer.trainsets)]]
    /\ OptimizerStep

AnnealingReturn ==
    /\ optimizer.phase = "annealing_loop"
    /\ ~AnnealingContinues(optimizer.runs[1], optimizer.request)
    /\ optimizer' =
         [optimizer EXCEPT
            !.phase = "solved",
            !.solutions = [k \in 1..2 |-> AnnealingSolution(optimizer.runs[k])]]
    /\ OptimizerStep

\* The OptimizationResult built from the solution of the driver.
OptimizationResult(algorithm, solution) ==
    [algorithm |-> algorithm, score |-> solution.score,
     trainset_assignments |-> solution.trainset_assignments,
     status |-> IF solution.score > 0 THEN "completed" ELSE "failed",
     error |-> {}]

OptimizeScheduleReturn ==
    /\ optimizer.phase = "solved"
    /\ optimizer' =
         [optimizer EXCEPT
            !.phase = "returned",
            !.results = [k \in 1..2 |->
                           OptimizationResult(optimizer.algorithm,
                                              optimizer.solutions[k])]]
    /\ OptimizerStep

----------------------------------------------------------------------------
(* The calls the optimizer is run on *)

Algorithms == {"constraint_programming", "genetic_algorithm",
               "simulated_annealing"}

IdenticalFleet ==
    <<TrainsetData("TS001", "AVAILABLE", TRUE, FALSE, 50000, 1),
      TrainsetData("TS002", "AVAILABLE", TRUE, FALSE, 50000, 1),
      TrainsetData("TS003", "AVAILABLE", TRUE, FALSE, 50000, 1)>>

UnevenFleet ==
    <<TrainsetData("TS001", "AVAILABLE", TRUE, FALSE, 10000, 1),
      TrainsetData("TS002", "AVAILABLE", TRUE, FALSE, 40000, 1),
      TrainsetData("TS003", "AVAILABLE", TRUE, FALSE, 40000, 1)>>

IneligibleFleet ==
    <<TrainsetData("TS001", "AVAILABLE", FALSE, FALSE, 20000, 3),
      TrainsetData("TS002", "AVAILABLE", TRUE, TRUE, 20000, 5),
      TrainsetData("TS003", "AVAILABLE", TRUE, FALSE, 50000, 1)>>

MaintenanceFleet ==
    <<TrainsetData("TS001", "AVAILABLE", TRUE, FALSE, 30000, 2),
      TrainsetData("TS002", "MAINTENANCE", TRUE, FALSE, 10000, 1)>>

OptimizerFleets ==
    {<<>>, IdenticalFleet, UnevenFleet, IneligibleFleet, MaintenanceFleet}

MaxTrainsetsInputs == {0, 1, 2, 3, MAX_STABLING_POSITIONS + 1}

Seeds == 0..(RngModulus - 1)

\* The hash orders of the two runs of a call: the same, or opposite.
HashOrders ==
    {<<<<"TS001", "TS002", "TS003">>, <<"TS001", "TS002", "TS003">>>>,
     <<<<"TS001", "TS002", "TS003">>, <<"TS003", "TS002", "TS001">>>>}

\* The calls: every algorithm on every fleet and cap; the seed and the hash
\* orders vary where the driver reads them.
OptimizationCalls ==
    {OptimizationCall(OptimizationRequest(algorithm, max_trainsets), trainsets,
                      seed, hash_orders) :
        algorithm \in Algorithms, max_trainsets \in MaxTrainsetsInputs,
        trainsets \in OptimizerFleets, seed \in Seeds,
        hash_orders \in HashOrders}

RandomisedCall(call) ==
    /\ ValidateInput(call.request, call.trainsets) = {}
    /\ call.request.algorithm # "constraint_programming"

InitOpt ==
    /\ now = 0
    /\ fleet = <<>>
    /\ active_decisions = <<>>
    /\ decision_history = <<>>
    /\ decision_counter = 0
    /\ feedback = <<>>
    /\ executed = {}
    /\ lastExec = NoExec
    /\ generated_schedules = <<>>
    /\ performance_history = <<>>
    /\ confidence_threshold = 75
    /\ auto_execution_threshold = 85
    /\ optimizer \in
         {call \in OptimizationCalls :
            /\ ~RandomisedCall(call) => call.seed = 0
            /\ call.request.algorithm # "genetic_algorithm"
                 => call.hash_orders[1] = call.hash_orders[2]}
    /\ stop_requested = FALSE
    /\ active_jobs = <<>>
    /\ loop_tasks = TasksCreated
    /\ telemetry_history = <<>>
    /\ lastOp = [op |-> "init"]

NextOpt ==
    \/ OptimizeScheduleEnter
    \/ SolveWithCpSat
    \/ GeneticInitialise
    \/ GeneticGenerationStep
    \/ GeneticReturn
    \/ AnnealingInitialise
    \/ AnnealingStep
    \/ AnnealingReturn
    \/ OptimizeScheduleReturn

SpecOpt == InitOpt /\ [][NextOpt]_vars

----------------------------------------------------------------------------
(* Properties of the Assignment Optimizer *)

\* The driver has returned its solution.
OptimizerSolved == optimizer.phase \in {"solved", "returned"}

PositionsAllowed == MaxPositions(optimizer.request)

\* The assignments returned by the two runs of the call.
ReturnedAssignments ==
    IF OptimizerSolved
    THEN {optimizer.solutions[k].trainset_assignments : k \in 1..2}
    ELSE {}

\* The assignments a driver holds between two steps of its loop.
StepAssignments ==
    IF optimizer.phase = "genetic_loop"
    THEN UNION {Range(optimizer.runs[k].population)
                  \cup Range(optimizer.runs[k].best.solution) : k \in 1..2}
    ELSE IF optimizer.phase = "annealing_loop"
    THEN UNION {{optimizer.runs[k].current_solution,
                 optimizer.runs[k].best_solution} : k \in 1..2}
    ELSE {}

\* The trainset of the call with the given id.
TrainsetOf(id) ==
    optimizer.trainsets[CHOOSE i \in 1..Len(optimizer.trainsets) :
                            optimizer.trainsets[i].trainset_id = id]

\* Injective: no trainset twice, no position twice.
Injective(a) ==
    \A i, j \in 1..Len(a) :
        i # j => /\ a[i].trainset_id # a[j].trainset_id
                 /\ a[i].position # a[j].position

\* C12: for each of the three drivers and every input, the returned
\* assignment is injective (no two trainsets share a position, each trainset
\* appears at most once) and every assigned position lies in [0, P') with
\* P' = min(request.max_trainsets, configured position cap).
C12_ReturnedAssignmentInjective ==
    \A a \in ReturnedAssignments :
        /\ Injective(a)
        /\ \A i \in 1..Len(a) :
              0 <= a[i].position /\ a[i].position < PositionsAllowed

\* The population driver has returned an assignment that fills every allowed
\* position, out of three trainsets competing for two positions.
C12_Witness ==
    /\ optimizer.phase = "returned"
    /\ optimizer.algorithm = "genetic_algorithm"
    /\ optimizer.runs[1].generation = Generations
    /\ Len(optimizer.trainsets) = 3
    /\ PositionsAllowed = 2
    /\ Len(optimizer.results[1].trainset_assignments) = 2

\* The local-search driver has returned an assignment that fills every
\* allowed position after three iterations.
C12_WitnessAnnealing ==
    /\ optimizer.phase = "returned"
    /\ optimizer.algorithm = "simulated_annealing"
    /\ optimizer.runs[1].iteration = 3
    /\ PositionsAllowed = 2
    /\ Len(optimizer.results[1].trainset_assignments) = 2

\* The exact driver has returned an assignment that fills every allowed
\* position.
C12_WitnessExact ==
    /\ optimizer.phase = "returned"
    /\ optimizer.algorithm = "constraint_programming"
    /\ PositionsAllowed = 2
    /\ Len(optimizer.results[1].trainset_assignments) = 2

\* C13: for each of the three drivers, no trainset with an invalid fitness
\* certificate and no trainset with an open high-priority work order appears
\* in the returned assignment, nor in any assignment a driver holds after a
\* generation (crossover, mutation) or an iteration (swap, move).
C13_NoUnfitTrainsetAssigned ==
    \A a \in ReturnedAssignments \cup StepAssignments :
        \A i \in 1..Len(a) :
            /\ TrainsetOf(a[i].trainset_id).fitness_valid
            /\ ~TrainsetOf(a[i].trainset_id).has_high_priority_jobs

\* On a fleet with one trainset without a valid certificate and one with
\* high-priority work, the population driver has bred its last generation
\* with two positions allowed and has assigned the remaining trainset.
C13_Witness ==
    /\ optimizer.phase = "genetic_loop"
    /\ optimizer.trainsets = IneligibleFleet
    /\ PositionsAllowed = 2
    /\ optimizer.runs[1].generation = Generations
    /\ \E a \in StepAssignments : a # <<>>

\* On the same fleet the exact driver has returned an optimal assignment.
C13_WitnessExact ==
    /\ optimizer.phase = "returned"
    /\ optimizer.trainsets = IneligibleFleet
    /\ optimizer.algorithm = "constraint_programming"
    /\ optimizer.results[1].trainset_assignments # <<>>

\* On the same fleet the local-search driver has moved the trainset assigned.
C13_WitnessAnnealing ==
    /\ optimizer.phase = "annealing_loop"
    /\ optimizer.trainsets = IneligibleFleet
    /\ optimizer.runs[1].iteration > 0
    /\ optimizer.runs[1].current_solution # <<>>
    /\ optimizer.runs[1].current_solution # optimizer.runs[1].best_solution

\* C14: for each of the three drivers, every trainset in the returned
\* assignment has operational status available; a trainset passed with any
\* other status is never assigned a position.
C14_OnlyAvailableAssigned ==
    \A a \in ReturnedAssignments :
        \A i \in 1..Len(a) :
            TrainsetOf(a[i].trainset_id).status = "AVAILABLE"

\* The feasibility predicate of the specification for a direct call of the
\* optimizer: certificate valid, no high-priority work order open, status
\* available.
Feasible(trainset) ==
    /\ trainset.fitness_valid
    /\ ~trainset.has_high_priority_jobs
    /\ trainset.status = "AVAILABLE"

\* Every partial injective assignment of feasible trainsets of the call into
\* [0, P').
FeasibleAssignments ==
    LET I == 1..Len(optimizer.trainsets)
        J == 0..(PositionsAllowed - 1)
        x_ok(x) ==
            /\ \A i \in I : SumOver(J, [j \in J |-> x[<<i, j>>]]) <= 1
            /\ \A j \in J : SumOver(I, [i \in I |-> x[<<i, j>>]]) <= 1
            /\ \A i \in I : ~Feasible(optimizer.trainsets[i]) =>
                                \A j \in J : x[<<i, j>>] = 0
    IN  {ExtractAssignments(x, optimizer.trainsets, 1, PositionsAllowed) :
            x \in {y \in CpSatVariables(optimizer.trainsets, PositionsAllowed) :
                     x_ok(y)}}

\* The exact driver has returned and its solver reported OPTIMAL.
ExactOptimal ==
    /\ OptimizerSolved
    /\ optimizer.algorithm = "constraint_programming"
    /\ optimizer.solutions[1].solver_status = "OPTIMAL"

\* C15: when the exact driver reports an optimal solution, the returned
\* assignment is feasible and its score under the shared scoring function is
\* the greatest over all feasible partial injective assignments of the given
\* trainsets into [0, P').
C15_ExactOptimumMaximisesSharedScore ==
    ExactOptimal =>
        /\ optimizer.solutions[1].trainset_assignments \in FeasibleAssignments
        /\ \A a \in FeasibleAssignments :
              CalculateSolutionScore(a, optimizer.trainsets)
                <= CalculateSolutionScore(
                       optimizer.solutions[1].trainset_assignments,
                       optimizer.trainsets)

\* The exact driver has returned an optimal solution for three available,
\* feasible trainsets of mileage 50000 and branding priority 1 with three
\* positions allowed.
IdenticalFleetSolved ==
    /\ ExactOptimal
    /\ optimizer.trainsets = IdenticalFleet
    /\ \A i \in 1..Len(IdenticalFleet) : Feasible(IdenticalFleet[i])
    /\ optimizer.request.max_trainsets = 3

\* C16 as stated: for 3 available, feasible trainsets with identical mileage
\* 50000 and branding priority 1 and P = 3, the exact driver returns an
\* assignment whose total score is 810.
C16_IdenticalFleetScore810 ==
    IdenticalFleetSolved => optimizer.solutions[1].score = 810 * ScoreScale

\* C16 amended: for 3 available, feasible trainsets with identical mileage
\* 50000 and branding priority 1 and P = 3, the exact driver, its solver
\* reporting an optimal solution, returns an assignment of all three
\* trainsets to positions 0, 1, 2 whose total score is
\* 3 * (100 + 50 + 0.6 * 100 + 0.3 * 20) + 50 + 48 + 46 = 792.
C16_IdenticalFleetScore792 ==
    IdenticalFleetSolved =>
        /\ optimizer.solutions[1].score = 792 * ScoreScale
        /\ Values(optimizer.solutions[1].trainset_assignments) = {0, 1, 2}
        /\ (optimizer.phase = "returned" =>
               optimizer.results[1].score = 792 * ScoreScale)

\* The result of that call has been returned with three trainsets assigned.
C16_Witness ==
    /\ IdenticalFleetSolved
    /\ optimizer.phase = "returned"
    /\ Len(optimizer.results[1].trainset_assignments) = 3

\* The trainsets of the call that pass the feasibility predicate.
FeasibleTrainsets ==
    {optimizer.trainsets[i].trainset_id :
        i \in {n \in 1..Len(optimizer.trainsets) :
                  Feasible(optimizer.trainsets[n])}}

\* C17: when k feasible trainsets are given and P' >= k positions are
\* allowed, the exact driver (its solver reporting an optimal solution)
\* assigns all k trainsets, and no other, and the set of occupied positions
\* is exactly {0, ..., k-1}.
C17_AllFeasibleAtLowestPositions ==
    LET k == Cardinality(FeasibleTrainsets)
        a == optimizer.solutions[1].trainset_assignments
    IN  (ExactOptimal /\ PositionsAllowed >= k) =>
            /\ Keys(a) = FeasibleTrainsets
            /\ Values(a) = 0..(k - 1)

\* Every partial injective assignment of trainsets of the call, feasible or
\* not, into [0, P').
PartialAssignments ==
    LET I == 1..Len(optimizer.trainsets)
        J == 0..(PositionsAllowed - 1)
        x_ok(x) ==
            /\ \A i \in I : SumOver(J, [j \in J |-> x[<<i, j>>]]) <= 1
            /\ \A j \in J : SumOver(I, [i \in I |-> x[<<i, j>>]]) <= 1
    IN  {ExtractAssignments(x, optimizer.trainsets, 1, PositionsAllowed) :
            x \in {y \in CpSatVariables(optimizer.trainsets, PositionsAllowed) :
                     x_ok(y)}}

\* The pairs (trainset, free position) an assignment can be extended with:
\* the trainset is feasible and not yet assigned, the position is free, and
\* the contribution of the pair is strictly positive.
Extensions(a) ==
    {tp \in (1..Len(optimizer.trainsets)) \X (0..(PositionsAllowed - 1)) :
        /\ Feasible(optimizer.trainsets[tp[1]])
        /\ optimizer.trainsets[tp[1]].trainset_id \notin Keys(a)
        /\ tp[2] \notin Values(a)
        /\ PairScore(optimizer.trainsets[tp[1]], tp[2], optimizer.trainsets) > 0}

\* The call has passed validation: the snapshot is one the drivers score.
SnapshotScored ==
    /\ optimizer.phase \notin {"none", "called", "raised"}
    /\ ValidateInput(optimizer.request, optimizer.trainsets) = {}

\* Every partial assignment over the snapshot, taken once per call, when the
\* driver is entered.
SnapshotAssignments ==
    IF optimizer.phase \in {"cp_sat", "genetic_initial", "annealing_initial"}
    THEN PartialAssignments
    ELSE {}

\* C18: for a fixed fleet snapshot, extending an assignment with one more
\* (trainset, free position) pair for a feasible, not-yet-assigned trainset
\* whose per-pair contribution is strictly positive yields a strictly larger
\* total score.
C18_ExtensionRaisesScore ==
    SnapshotScored =>
        \A a \in SnapshotAssignments \cup ReturnedAssignments \cup StepAssignments :
            \A tp \in Extensions(a) :
                CalculateSolutionScore(
                    SetItem(a, optimizer.trainsets[tp[1]].trainset_id, tp[2]),
                    optimizer.trainsets)
                  > CalculateSolutionScore(a, optimizer.trainsets)

\* A driver has returned a non-empty assignment, scored by the shared
\* function, that leaves a feasible trainset and a position free.
C18_Witness ==
    /\ optimizer.phase = "returned"
    /\ optimizer.results[1].trainset_assignments # <<>>
    /\ optimizer.results[1].score
         = CalculateSolutionScore(optimizer.results[1].trainset_assignments,
                                  optimizer.trainsets)
    /\ Extensions(optimizer.results[1].trainset_assignments) # {}

\* An assignment as a mapping: two dicts are equal when they hold the same
\* items, whatever their insertion order.
AsMapping(a) == Range(a)

\* C19: for a fixed RNG seed and the same request and trainset list, two
\* runs of the population driver return identical assignments, and two runs
\* of the local-search driver return identical assignments.
C19_SeededRunsAgree ==
    (OptimizerSolved
       /\ optimizer.algorithm \in {"genetic_algorithm", "simulated_annealing"}) =>
        AsMapping(optimizer.solutions[1].trainset_assignments)
          = AsMapping(optimizer.solutions[2].trainset_assignments)

\* C20: optimize_schedule called with an empty trainset list, with
\* max_trainsets <= 0, or with max_trainsets above the configured ceiling
\* fails with the validation error reported to the caller (raised as the
\* ValueError, or returned in a failed result), and no algorithm driver is
\* run.
C20_InvalidInputReportsValidationError ==
    LET invalid ==
            \/ optimizer.trainsets = <<>>
            \/ optimizer.request.max_trainsets <= 0
            \/ optimizer.request.max_trainsets > MAX_STABLING_POSITIONS
    IN  (optimizer.phase \notin {"none", "called"} /\ invalid) =>
            /\ optimizer.drivers_run = 0
            /\ \/ optimizer.phase = "raised" /\ optimizer.raised = "ValueError"
               \/ /\ optimizer.phase = "returned"
                  /\ optimizer.results[1].status = "failed"
                  /\ optimizer.results[1].error = optimizer.validation

----------------------------------------------------------------------------
(* Schedule generation of the Intelligent Scheduler                        *)
(* (app/ai_automation/intelligent_scheduler.py).  In the runs of SpecGen   *)
(* `fleet' is what _get_current_trainset_status returns; each trainset     *)
(* carries in `health' the health statuses of the component predictions    *)
(* that PredictiveMaintenanceAI.analyze_trainset_health returns for it     *)
(* (none when there is too little telemetry).  analyze_trainset_health is   *)
(* a plain function that the scheduler awaits.                             *)

StartWeekday == 0

\* The clock value of hour:minute on the given day of the run.
ClockAt(day, hour, minute) == day * 1440 + hour * 60 + minute - StartMinuteOfDay

\* current_time.weekday(): Monday is 0
WeekdayOf(t) == (StartWeekday + DateOf(t)) % 7

\* _initialize_schedule_templates: min_trainsets and max_trainsets
schedule_templates ==
    [peak_morning |-> [min_trainsets |-> 18, max_trainsets |-> 25],
     peak_evening |-> [min_trainsets |-> 18, max_trainsets |-> 25],
     off_peak |-> [min_trainsets |-> 10, max_trainsets |-> 15],
     night_service |-> [min_trainsets |-> 5, max_trainsets |-> 8],
     weekend |-> [min_trainsets |-> 8, max_trainsets |-> 15],
     maintenance_window |-> [min_trainsets |-> 3, max_trainsets |-> 8]]

\* _determine_schedule_type: the branches in the order of the code
DetermineScheduleType(t) ==
    LET hour == HourOf(t)
    IN  IF WeekdayOf(t) >= 5 THEN "weekend"
        ELSE IF (6 <= hour /\ hour < 10) \/ (17 <= hour /\ hour < 21)
        THEN "peak_hour"
        ELSE IF hour >= 22 \/ hour < 6 THEN "night_service"
        ELSE IF 1 <= hour /\ hour < 5 THEN "maintenance_window"
        ELSE "off_peak"

\* the template_key lookup of _create_schedule_constraints
TemplateKey(schedule_type, t) ==
    CASE schedule_type = "peak_hour" ->
            (IF HourOf(t) < 12 THEN "peak_morning" ELSE "peak_evening")
      [] schedule_type = "off_peak" -> "off_peak"
      [] schedule_type = "night_service" -> "night_service"
      [] schedule_type = "weekend" -> "weekend"
      [] schedule_type = "maintenance_window" -> "maintenance_window"
      [] OTHER -> "off_peak"

\* A trainset as the scheduler's fleet reader returns it.
ScheduledTrainset(id, status, fitness_expired, health) ==
    [trainset_id |-> id, status |-> status, fitness_expired |-> fitness_expired,
     health |-> health]

\* analyze_trainset_health(trainset_id): one prediction per component
AnalyzeTrainsetHealth(trainset) ==
    [c \in 1..Len(trainset.health) |->
        [trainset_id |-> trainset.trainset_id, health_status |-> trainset.health[c]]]

RECURSIVE SelectTrainsets(_, _)
\* [ts for ts in trainsets if ts['status'] == status]
SelectTrainsets(trainsets, status) ==
    IF trainsets = <<>> THEN <<>>
    ELSE LET rest == SelectTrainsets(Tail(trainsets), status)
         IN  IF Head(trainsets).status = status
             THEN <<Head(trainsets)>> \o rest
             ELSE rest

RECURSIVE MaintenancePredictions(_)
\* maintenance_predictions.extend(predictions) for each trainset in order
MaintenancePredictions(trainsets) ==
    IF trainsets = <<>> THEN <<>>
    ELSE AnalyzeTrainsetHealth(Head(trainsets))
           \o MaintenancePredictions(Tail(trainsets))

\* p.health_status.value in ['critical', 'poor']
CriticalOrPoor(predictions) ==
    {i \in 1..Len(predictions) :
        predictions[i].health_status \in {"critical", "poor"}}

\* _check_emergency_scheduling_need: the value returned, or the exception
\* raised by the await of the first available trainset's predictions.
\* critical_count counts predictions (one per component);
\* critical_count > available_count * 0.2 in floating point is
\* 5 * critical_count > available_count for integer counts.  The fitness
\* test reads ts.get('fitness_expired', False) of every trainset.
CheckEmergencySchedulingNeed(current_trainsets) ==
    LET available == SelectTrainsets(current_trainsets, "AVAILABLE")
        maintenance_predictions == MaintenancePredictions(available)
        critical_count == Cardinality(CriticalOrPoor(maintenance_predictions))
        available_count == Len(available)
        expired_fitness ==
            Cardinality({i \in 1..Len(current_trainsets) :
                            current_trainsets[i].fitness_expired})
    IN  IF available # <<>> /\ AwaitOfPlainValueRaises
        THEN [raised |-> "TypeError", value |-> FALSE]
        ELSE [raised |-> "",
              value |-> IF 5 * critical_count > available_count THEN TRUE
                        ELSE IF expired_fitness > 0 THEN TRUE
                        ELSE FALSE]

\* _evaluate_scheduling_need on the fleet: the emergency check is called
\* only when the time is not a critical scheduling time.
EvaluateSchedulingNeedOnFleet(t, current_trainsets) ==
    LET emergency == CheckEmergencySchedulingNeed(current_trainsets)
    IN  IF HourOf(t) \in critical_hours /\ MinuteOf(t) < 10
        THEN [raised |-> "", value |-> TRUE]
        ELSE IF emergency.raised # "" THEN emergency
        ELSE [raised |-> "", value |-> EvaluateSchedulingNeed(t, emergency.value)]

RECURSIVE NotIn(_, _)
\* [ts for ts in trainsets if ts['trainset_id'] not in ids]
NotIn(trainsets, ids) ==
    IF trainsets = <<>> THEN <<>>
    ELSE LET rest == NotIn(Tail(trainsets), ids)
         IN  IF Head(trainsets).trainset_id \notin ids
             THEN <<Head(trainsets)>> \o rest
             ELSE rest

\* _create_schedule_constraints: the constraints, or the exception raised by
\* the await of the first available trainset's predictions.
CreateScheduleConstraints(schedule_type, t, trainsets) ==
    LET template == schedule_templates[TemplateKey(schedule_type, t)]
        available_trainsets == SelectTrainsets(trainsets, "AVAILABLE")
        maintenance_predictions == MaintenancePredictions(available_trainsets)
        critical_trainsets ==
            {maintenance_predictions[i].trainset_id :
                i \in CriticalOrPoor(maintenance_predictions)}
        available_for_service == NotIn(available_trainsets, critical_trainsets)
    IN  [raised |-> IF available_trainsets # <<>> /\ AwaitOfPlainValueRaises
                    THEN "TypeError" ELSE "",
         min_trainsets |-> Max(template.min_trainsets,
                               Len(available_for_service) \div 3),
         max_trainsets |-> Min(template.max_trainsets,
                               Len(available_for_service)),
         available_trainsets |->
            [i \in 1..Len(available_for_service) |->
                available_for_service[i].trainset_id],
         maintenance_exclusions |-> critical_trainsets]

\* _create_schedule_request: the type and the constraints of the request, or
\* the exception raised while the constraints are built.
CreateScheduleRequest(t, trainsets) ==
    LET schedule_type == DetermineScheduleType(t)
        constraints == CreateScheduleConstraints(schedule_type, t, trainsets)
    IN  [raised |-> constraints.raised, schedule_type |-> schedule_type,
         constraints |-> constraints]

\* _prepare_trainset_data: the list built (the trainsets named in the
\* constraints), or the exception raised for the first of them: by the await
\* of its predictions, else by the TrainsetData(...) call.
PrepareTrainsetData(trainsets, constraints) ==
    LET listed == {i \in 1..Len(trainsets) :
                      trainsets[i].trainset_id \in Range(constraints.available_trainsets)}
        missing == TrainsetDataRequiredFields \ PrepareTrainsetDataKeywords
    IN  IF listed # {} /\ AwaitOfPlainValueRaises
        THEN [raised |-> "TypeError", data |-> <<>>]
        ELSE IF listed # {} /\ missing # {}
        THEN [raised |-> "ValidationError", data |-> <<>>]
        ELSE [raised |-> "", data |-> NotIn(trainsets,
                  {trainsets[i].trainset_id : i \in (1..Len(trainsets)) \ listed})]

\* _create_enhanced_optimization_request: the request (its max_trainsets), or
\* the ValidationError of the constructor: a required field left out, or
\* max_trainsets outside 1..25 (validate_max_trainsets).
CreateEnhancedOptimizationRequest(request) ==
    LET missing == OptimizationRequestRequiredFields \ EnhancedRequestKeywords
        max_trainsets == request.constraints.max_trainsets
    IN  IF missing # {} \/ max_trainsets < 1 \/ max_trainsets > 25
        THEN [raised |-> "ValidationError", max_trainsets |-> max_trainsets]
        ELSE [raised |-> "", max_trainsets |-> max_trainsets]

\* The algorithms in the order _generate_intelligent_schedule tries them.
GenerationAlgorithms ==
    <<"constraint_programming", "genetic_algorithm", "simulated_annealing">>

RECURSIVE BestResult(_, _, _)
\* The loop over the algorithms: results[i] is what optimize_schedule returns
\* for GenerationAlgorithms[i]; best is the best result so far (or none).
BestResult(results, i, best) ==
    IF i > Len(results) THEN best
    ELSE LET result == results[i]
             better == /\ result.status = "completed"
                       /\ (best = {} \/ result.score > TheDate(best).score)
         IN  BestResult(results, i + 1, IF better THEN {result} ELSE best)

\* The outcome of _generate_intelligent_schedule when it returns None.
NoSchedule(why, invoked, max_trainsets) ==
    [schedule |-> {}, aborted |-> why, invoked |-> invoked,
     max_trainsets |-> max_trainsets]

\* _generate_intelligent_schedule.  results is what the three calls of the
\* optimizer return, confidence what _calculate_schedule_confidence computes
\* for the enhanced schedule.  Every exception is caught and turned into
\* None.  invoked counts the calls of optimize_schedule made.
GenerateIntelligentSchedule(request, trainsets, results, confidence) ==
    LET trainset_data == PrepareTrainsetData(trainsets, request.constraints)
        optimization_request == CreateEnhancedOptimizationRequest(request)
        best_result == BestResult(results, 1, {})
    IN  IF trainset_data.raised # ""
        THEN NoSchedule(trainset_data.raised, 0, {})
        ELSE IF Len(trainset_data.data) < request.constraints.min_trainsets
        THEN NoSchedule("insufficient_trainsets", 0, {})
        ELSE IF optimization_request.raised # ""
        THEN NoSchedule(optimization_request.raised, 0, {})
        ELSE IF best_result = {}
        THEN NoSchedule("all_failed", Len(results),
                        {optimization_request.max_trainsets})
        ELSE [schedule |-> {[algorithm |-> TheDate(best_result).algorithm,
                             score |-> TheDate(best_result).score,
                             confidence |-> confidence]},
              aborted |-> "", invoked |-> Len(results),
              max_trainsets |-> {optimization_request.max_trainsets}]

\* What follows a generation in the loop and in the manual request: the
\* route of the schedule, none when there is no schedule.
ScheduleRoute(schedule, auto) ==
    IF schedule = {} THEN "none"
    ELSE IF auto THEN "auto_execute"
    ELSE IF TheDate(schedule).confidence >= confidence_threshold
    THEN "request_approval"
    ELSE "discard"

\* One pass of the body of _continuous_scheduling_loop on the fleet the
\* scheduler reads, at the time `now'.  An exception raised by the
\* evaluation of the need or by the creation of the request is caught by the
\* loop (logged, then a sleep of ten minutes); the loop never exits.
ContinuousSchedulingLoopOnFleet(results, confidence, ok) ==
    LET schedule_needed == EvaluateSchedulingNeedOnFleet(now, fleet)
        request == CreateScheduleRequest(now, fleet)
        caught == IF schedule_needed.raised # "" THEN schedule_needed.raised
                  ELSE IF schedule_needed.value THEN request.raised
                  ELSE ""
        called == schedule_needed.raised = "" /\ schedule_needed.value
                    /\ request.raised = ""
        generation == GenerateIntelligentSchedule(request, fleet, results, confidence)
        schedule == IF called THEN generation.schedule ELSE {}
        auto == /\ schedule # {}
                /\ TheDate(schedule).confidence >= auto_execution_threshold
    IN
    /\ Len(generated_schedules) < MaxSchedules
    /\ generated_schedules' =
         IF schedule # {}
         THEN Append(generated_schedules, TheDate(schedule).confidence)
         ELSE generated_schedules
    /\ performance_history' =
         IF auto
         THEN ExecuteScheduleAutomatically(performance_history,
                                           TheDate(schedule).confidence, ok)
         ELSE performance_history
    /\ lastOp' = [op |-> "schedule",
                  route |-> ScheduleRoute(schedule, auto),
                  needed |-> schedule_needed.raised = "" /\ schedule_needed.value,
                  caught |-> caught,
                  emergency |-> IF HourOf(now) \in critical_hours /\ MinuteOf(now) < 10
                                THEN {}
                                ELSE {CheckEmergencySchedulingNeed(fleet)},
                  request |-> IF called THEN {request} ELSE {},
                  results |-> results,
                  generation |-> IF called THEN {generation} ELSE {},
                  sleep |-> IF caught # "" THEN 600 ELSE 300,
                  loop_exited |-> FALSE]
    /\ lastExec' = NoExec
    /\ UNCHANGED <<now, fleet, active_decisions, decision_history,
                   decision_counter, feedback, executed>>
    /\ UNCHANGED <<confidence_threshold, auto_execution_threshold>>
    /\ UNCHANGED optimizerVars
    /\ UNCHANGED serviceVars

\* generate_schedule_manually (POST /scheduler/generate) on the fleet the
\* scheduler reads: the constraints are those of the request body.
GenerateScheduleManuallyOnFleet(constraints, force_generate, results, confidence, ok) ==
    LET request == [raised |-> "", schedule_type |-> "manual",
                    constraints |-> constraints]
        generation == GenerateIntelligentSchedule(request, fleet, results, confidence)
        schedule == generation.schedule
        auto == /\ schedule # {}
                /\ \/ force_generate
                   \/ TheDate(schedule).confidence >= auto_execution_threshold
    IN
    /\ Len(generated_schedules) < MaxSchedules
    /\ generated_schedules' =
         IF schedule # {}
         THEN Append(generated_schedules, TheDate(schedule).confidence)
         ELSE generated_schedules
    /\ performance_history' =
         IF auto
         THEN ExecuteScheduleAutomatically(performance_history,
                                           TheDate(schedule).confidence, ok)
         ELSE performance_history
    /\ lastOp' = [op |-> "generate",
                  route |-> ScheduleRoute(schedule, auto),
                  needed |-> TRUE,
                  caught |-> "",
                  emergency |-> {},
                  request |-> {request},
                  results |-> results,
                  generation |-> {generation},
                  sleep |-> 0,
                  loop_exited |-> FALSE]
    /\ lastExec' = NoExec
    /\ UNCHANGED <<now, fleet, active_decisions, decision_history,
                   decision_counter, feedback, executed>>
    /\ UNCHANGED <<confidence_threshold, auto_execution_threshold>>
    /\ UNCHANGED optimizerVars
    /\ UNCHANGED serviceVars

\* What the three calls of optimize_schedule may return: each algorithm
\* fails or completes with a score of its own.
DriverResults ==
    {<<[algorithm |-> "constraint_programming", status |-> cp, score |-> 500],
       [algorithm |-> "genetic_algorithm", status |-> ga, score |-> 600],
       [algorithm |-> "simulated_annealing", status |-> sa, score |-> 550]>> :
        cp \in {"failed", "completed"}, ga \in {"failed", "completed"},
        sa \in {"failed", "completed"}}

GenerationConfidences == {60, 90}

\* The constraints of a manual request: the available trainsets of the
\* fleet or none, with the bounds the caller chose.
ManualConstraints ==
    {[raised |-> "", min_trainsets |-> min, max_trainsets |-> max,
      available_trainsets |-> ids, maintenance_exclusions |-> {}] :
        min \in {0, 3}, max \in {8},
        ids \in {<<>>, [i \in 1..Len(SelectTrainsets(fleet, "AVAILABLE")) |->
                          SelectTrainsets(fleet, "AVAILABLE")[i].trainset_id]}}

SchedulingTickOnFleet ==
    /\ lastOp.op = "init"
    /\ \E results \in DriverResults, confidence \in GenerationConfidences,
          ok \in BOOLEAN :
          ContinuousSchedulingLoopOnFleet(results, confidence, ok)

ManualGenerationOnFleet ==
    /\ lastOp.op = "init"
    /\ \E constraints \in ManualConstraints, force_generate \in BOOLEAN,
          results \in DriverResults, confidence \in GenerationConfidences,
          ok \in BOOLEAN :
          GenerateScheduleManuallyOnFleet(constraints, force_generate, results,
                                          confidence, ok)

FleetIds ==
    <<"TS001", "TS002", "TS003", "TS004", "TS005", "TS006", "TS007", "TS008",
      "TS009", "TS010", "TS011", "TS012", "TS013", "TS014", "TS015", "TS016",
      "TS017">>

\* A fleet of n available trainsets, of which the first `unhealthy' have
\* `components' critical component predictions each and the others one good
\* prediction, followed, when extra > 0, by a trainset in maintenance whose
\* fitness certificate has expired when extra = 2.
GenerationFleet(n, unhealthy, components, extra) ==
    [i \in 1..n |->
        ScheduledTrainset(FleetIds[i], "AVAILABLE", FALSE,
                          IF i <= unhealthy
                          THEN [c \in 1..components |-> "critical"]
                          ELSE <<"good">>)]
      \o (IF extra > 0
          THEN <<ScheduledTrainset(FleetIds[n + 1], "MAINTENANCE", extra = 2, <<>>)>>
          ELSE <<>>)

\* _get_current_trainset_status: the fixed fleet of the scheduler, with no
\* telemetry recorded.
MockFleet ==
    [i \in 1..8 |->
        ScheduledTrainset(FleetIds[i],
                          IF i = 3 THEN "MAINTENANCE"
                          ELSE IF i = 6 THEN "CLEANING" ELSE "AVAILABLE",
                          FALSE, <<>>)]

SchedulerFleets ==
    {GenerationFleet(n, unhealthy, components, extra) :
        n \in {0, 8, 15}, unhealthy \in 0..2, components \in 1..2,
        extra \in 0..2}
      \cup {MockFleet}

GenerationTimes ==
    {ClockAt(day, hour, minute) :
        day \in {1, 5}, hour \in {4, 7, 13, 22}, minute \in {2, 30}}

InitGen ==
    /\ now \in GenerationTimes
    /\ fleet \in SchedulerFleets
    /\ active_decisions = <<>>
    /\ decision_history = <<>>
    /\ decision_counter = 0
    /\ feedback = <<>>
    /\ executed = {}
    /\ lastExec = NoExec
    /\ generated_schedules = <<>>
    /\ performance_history = <<>>
    /\ confidence_threshold = 75
    /\ auto_execution_threshold = 85
    /\ optimizer = NoOptimization
    /\ stop_requested = FALSE
    /\ active_jobs = <<>>
    /\ loop_tasks = TasksCreated
    /\ telemetry_history = <<>>
    /\ lastOp = [op |-> "init"]

NextGen ==
    \/ SchedulingTickOnFleet
    \/ ManualGenerationOnFleet

SpecGen == InitGen /\ [][NextGen]_vars

----------------------------------------------------------------------------
(* Properties of the schedule generation                                   *)

\* The generation the last pass or request ran, if it ran one.
GenerationRun == lastOp.op \in {"schedule", "generate"} /\ lastOp.generation # {}

TheGeneration == TheDate(lastOp.generation)

\* The request names at least as many trainsets as its minimum asks for.
EnoughTrainsets ==
    Len(TheDate(lastOp.request).constraints.available_trainsets)
        >= TheDate(lastOp.request).constraints.min_trainsets

CompletedResults ==
    {i \in 1..Len(lastOp.results) : lastOp.results[i].status = "completed"}

\* C21: a generation whose request names enough trainsets invokes the
\* optimizer with each of the three algorithms and, when at least one result
\* is completed, produces a schedule from the highest-scoring completed
\* result; in particular when the exact driver failed the schedule's
\* algorithm is the population or the local-search one.
C21_BestCompletedResultKept ==
    (GenerationRun /\ EnoughTrainsets /\ CompletedResults # {}) =>
        /\ TheGeneration.invoked = 3
        /\ TheGeneration.schedule # {}
        /\ \E i \in CompletedResults :
              /\ TheDate(TheGeneration.schedule).algorithm = lastOp.results[i].algorithm
              /\ \A j \in CompletedResults :
                    lastOp.results[j].score <= lastOp.results[i].score
        /\ (lastOp.results[1].status = "failed" =>
              TheDate(TheGeneration.schedule).algorithm
                 \in {"genetic_algorithm", "simulated_annealing"})

\* The trainsets of the fleet with status AVAILABLE, and those of them with
\* a poor or critical component prediction.
AvailableInFleet == SelectTrainsets(fleet, "AVAILABLE")

UnhealthyAvailable ==
    {i \in 1..Len(AvailableInFleet) :
        \E c \in 1..Len(AvailableInFleet[i].health) :
            AvailableInFleet[i].health[c] \in {"critical", "poor"}}

\* A pass of the scheduling loop on a weekday at 07:02 with 15 available
\* trainsets of which 2 are in critical health.
PeakTick ==
    /\ lastOp.op = "schedule"
    /\ WeekdayOf(now) < 5 /\ HourOf(now) = 7 /\ MinuteOf(now) = 2
    /\ Len(AvailableInFleet) = 15
    /\ Cardinality(UnhealthyAvailable) = 2

\* C23: the weekday 07:02 pass on 15 available trainsets, 2 of them in
\* critical health, runs a generation that is not aborted for want of
\* trainsets, invokes the optimizer with max_trainsets 13 and, when a driver
\* completes, produces a schedule.
C23_PeakTickGeneratesWithMax13 ==
    PeakTick =>
        /\ lastOp.generation # {}
        /\ TheGeneration.aborted # "insufficient_trainsets"
        /\ TheGeneration.invoked = 3
        /\ TheGeneration.max_trainsets = {13}
        /\ (CompletedResults # {} => TheGeneration.schedule # {})

\* The emergency check the last pass of the loop made, if it made one.
EmergencyChecked == lastOp.op = "schedule" /\ lastOp.emergency # {}

\* C24: the emergency check returns true exactly when more than 0.2 of the
\* available trainsets have a poor or critical health status, or some
\* available trainset has an expired fitness certificate.
C24_EmergencyIffUnhealthyShareOrExpiredFitness ==
    EmergencyChecked =>
        /\ TheDate(lastOp.emergency).raised = ""
        /\ TheDate(lastOp.emergency).value
             <=> \/ 5 * Cardinality(UnhealthyAvailable) > Len(AvailableInFleet)
                 \/ \E i \in 1..Len(AvailableInFleet) :
                       AvailableInFleet[i].fitness_expired

\* C25: a request created on a weekday at an hour from 1 to 4 has the
\* schedule type maintenance_window.
C25_WeekdayEarlyHoursAreMaintenanceWindow ==
    (/\ lastOp.op = "schedule" /\ lastOp.request # {}
     /\ WeekdayOf(now) < 5 /\ HourOf(now) >= 1 /\ HourOf(now) < 5)
        => TheDate(lastOp.request).schedule_type = "maintenance_window"

----------------------------------------------------------------------------
(* The evaluator on larger fleets.  _get_current_trainsets stands for the  *)
(* database query; the runs of SpecFleet start from fleets of up to 17     *)
(* trainsets, each with the last_cleaning_date the query returns for it    *)
(* (a day number, or none for a trainset never cleaned).                   *)

MaxFleetTicks == 1

CleanedTrainset(id, status, last_cleaning_date) ==
    [trainset_id |-> id, status |-> status, fitness_expiry_date |-> {30},
     next_maintenance_date |-> {}, last_cleaning_date |-> last_cleaning_date]

CleaningOrders == {"oldest_first", "newest_first", "never_cleaned_last"}

\* A fleet of n available trainsets in the order the query returns them,
\* preceded, when extra = 1, by a trainset in maintenance.  oldest_first:
\* the first was never cleaned, the others were cleaned on days 2, 3, ...;
\* newest_first: cleaned on days n, n - 1, ..., 1; never_cleaned_last: cleaned
\* on days 1, 2, ... and the last one never.
LargeFleet(n, order, extra) ==
    (IF extra = 1
     THEN <<CleanedTrainset(FleetIds[n + 1], "MAINTENANCE", {})>>
     ELSE <<>>)
      \o [i \in 1..n |->
            CleanedTrainset(FleetIds[i], "AVAILABLE",
                CASE order = "oldest_first" -> (IF i = 1 THEN {} ELSE {i})
                  [] order = "newest_first" -> {n - i + 1}
                  [] OTHER -> (IF i = n THEN {} ELSE {i}))]

LargeFleets ==
    {LargeFleet(n, order, extra) :
        n \in {5, 6, 8, 9, 12, 16}, order \in CleaningOrders, extra \in {0, 1}}

\* The times of the evaluator ticks: 22:02, 22:08 and 22:12 of the first
\* day.
FleetTickTimes == {4, 10, 14}

FleetEvaluatorTick ==
    \E prediction \in Predictions :
        EvaluateSystemState(now, prediction, MaxFleetTicks)

InitFleet ==
    /\ now \in FleetTickTimes
    /\ fleet \in LargeFleets
    /\ active_decisions = <<>>
    /\ decision_history = <<>>
    /\ decision_counter = 0
    /\ feedback = <<>>
    /\ executed = {}
    /\ lastExec = NoExec
    /\ generated_schedules = <<>>
    /\ performance_history = <<>>
    /\ confidence_threshold = 75
    /\ auto_execution_threshold = 85
    /\ optimizer = NoOptimization
    /\ stop_requested = FALSE
    /\ active_jobs = <<>>
    /\ loop_tasks = TasksCreated
    /\ telemetry_history = <<>>
    /\ lastOp = [op |-> "init"]

NextFleet == FleetEvaluatorTick

SpecFleet == InitFleet /\ [][NextFleet]_vars

----------------------------------------------------------------------------
(* Properties of the evaluator on larger fleets                            *)

AvailableOfFleet == SelectTrainsets(fleet, "AVAILABLE")

CleaningDecisions ==
    {i \in 1..Len(lastOp.emitted) :
        lastOp.emitted[i].decision_type = "cleaning_schedule"}

CeilDiv(a, b) == (a + b - 1) \div b

\* An evaluator tick at hour 22, minute below 10, with at least 6 available
\* trainsets.
CleaningTick ==
    /\ AfterEvaluatorTick
    /\ HourOf(now) = 22 /\ MinuteOf(now) < 10
    /\ Len(AvailableOfFleet) >= 6

\* C26: an evaluator tick at hour 22 with minute below 10 and n >= 6
\* available trainsets emits exactly one cleaning decision, which affects
\* the ceiling of n / 4 trainsets.
C26_CleaningAffectsCeilingOfQuarter ==
    CleaningTick =>
        /\ Cardinality(CleaningDecisions) = 1
        /\ \A i \in CleaningDecisions :
              Len(lastOp.emitted[i].affected_trainsets)
                 = CeilDiv(Len(AvailableOfFleet), 4)

\* The place of a trainset in the order of last cleaning: never cleaned
\* comes before every date.
CleaningKey(trainset) ==
    IF trainset.last_cleaning_date = {} THEN -1
    ELSE TheDate(trainset.last_cleaning_date)

\* C27: the trainsets affected by a cleaning decision are the least recently
\* cleaned of the available trainsets (never cleaned first): no available
\* trainset left out was cleaned earlier than an affected one.
C27_CleaningTakesLeastRecentlyCleaned ==
    AfterEvaluatorTick =>
        \A i \in CleaningDecisions :
            \A a, b \in 1..Len(AvailableOfFleet) :
               (/\ AvailableOfFleet[a].trainset_id
                      \in Range(lastOp.emitted[i].affected_trainsets)
                /\ AvailableOfFleet[b].trainset_id
                      \notin Range(lastOp.emitted[i].affected_trainsets))
                  => CleaningKey(AvailableOfFleet[a]) <= CleaningKey(AvailableOfFleet[b])

\* C28: every decision of the active set that affects more than
\* max_autonomous_trainsets trainsets requires human approval.
C28_LargeDecisionsRequireApproval ==
    \A i \in 1..Len(active_decisions) :
        Len(active_decisions[i].affected_trainsets) > max_autonomous_trainsets
            => active_decisions[i].requires_human_approval

----------------------------------------------------------------------------
(* The background loops and the stop operation                             *)
(* (app/routers/ai_automation.py).  The runs of SpecLoops start with the   *)
(* five tasks of initialize and start_autonomous_scheduling created; every *)
(* loop is `while True' and each action below is one pass of a loop body.  *)
(* stop_requested records that POST /stop has been served: the handler     *)
(* itself writes no state of the program.                                  *)

\* One pass of _performance_monitoring_loop: _analyze_schedule_performance
\* reads performance_history and logs.
PerformanceMonitoringLoop ==
    /\ lastOp' = [op |-> "performance"]
    /\ lastExec' = NoExec
    /\ UNCHANGED <<now, fleet, active_decisions, decision_history,
                   decision_counter, feedback, executed>>
    /\ UNCHANGED schedulerVars
    /\ UNCHANGED optimizerVars
    /\ UNCHANGED serviceVars

PerformanceTick == PerformanceMonitoringLoop

\* stop_ai_automation (POST /stop): logs and returns a success message; no
\* task is cancelled and no flag is set.
StopAiAutomation ==
    /\ stop_requested' = TRUE
    /\ lastOp' = [op |-> "stop", status |-> "success"]
    /\ lastExec' = NoExec
    /\ UNCHANGED <<now, fleet, active_decisions, decision_history,
                   decision_counter, feedback, executed>>
    /\ UNCHANGED schedulerVars
    /\ UNCHANGED optimizerVars
    /\ UNCHANGED <<active_jobs, loop_tasks, telemetry_history>>

InitLoops ==
    /\ now = 0
    /\ fleet = <<Trainset("TS001", "AVAILABLE", {-1}, {}),
                  Trainset("TS002", "AVAILABLE", {30}, {3})>>
    /\ active_decisions = <<>>
    /\ decision_history = <<>>
    /\ decision_counter = 0
    /\ feedback = <<>>
    /\ executed = {}
    /\ lastExec = NoExec
    /\ generated_schedules = <<>>
    /\ performance_history = <<>>
    /\ confidence_threshold = 75
    /\ auto_execution_threshold = 85
    /\ optimizer = NoOptimization
    /\ stop_requested = FALSE
    /\ active_jobs = <<>>
    /\ loop_tasks = TasksCreated
    /\ telemetry_history = <<>>
    /\ lastOp = [op |-> "init"]

NextLoops ==
    \/ EvaluatorTick
    \/ ExecutorTick
    \/ SchedulingTick
    \/ PerformanceTick
    \/ AdaptiveTick
    \/ StopAiAutomation
    \/ Advance

SpecLoops == InitLoops /\ [][NextLoops]_vars

\* The passes of the five background loops.
LoopTickOps == {"evaluate", "execute", "schedule", "performance", "adapt"}

\* C29: once the stop operation has been served, no background loop starts
\* a new pass: the last step taken is never a pass of a loop body.
C29_NoTickAfterStop ==
    stop_requested => lastOp.op \notin LoopTickOps

----------------------------------------------------------------------------
(* Asynchronous optimization jobs (app/routers/optimization.py) of one     *)
(* worker process.  active_jobs is the dict of the module in insertion     *)
(* order; `queued' tells that the background task of the job has not run   *)
(* yet, `valid' whether optimize_schedule returns a result for the request *)
(* or raises.                                                              *)

\* Settings of app/utils/config.py; nothing else in the service reads them.
MAX_CONCURRENT_OPTIMIZATIONS == 5
OPTIMIZATION_QUEUE_SIZE == 20

MaxJobs == 21
MaxInvalidRequests == 1
RunWindow == 2

OptimizationJob(status, queued, valid) ==
    [status |-> status, queued |-> queued, valid |-> valid]

QueuedJobs == {i \in 1..Len(active_jobs) : active_jobs[i].queued}

\* optimize_schedule_async (POST /optimize/async): a pending job is stored
\* and its background task queued, whatever the number of jobs.
OptimizeScheduleAsync(valid) ==
    /\ Len(active_jobs) < MaxJobs
    /\ valid \/ Cardinality({i \in 1..Len(active_jobs) : ~active_jobs[i].valid})
                  < MaxInvalidRequests
    /\ active_jobs' = Append(active_jobs, OptimizationJob("pending", TRUE, valid))
    /\ lastOp' = [op |-> "submit", accepted |-> TRUE,
                  waiting_before |-> Cardinality(QueuedJobs)]
    /\ lastExec' = NoExec
    /\ UNCHANGED <<now, fleet, active_decisions, decision_history,
                   decision_counter, feedback, executed>>
    /\ UNCHANGED schedulerVars
    /\ UNCHANGED optimizerVars
    /\ UNCHANGED <<stop_requested, loop_tasks, telemetry_history>>

\* run_optimization_job: the background task of job i.  The status becomes
\* running, the optimizer is awaited (it has no suspension point, so the
\* task runs to its end in one step of the event loop), and the status
\* becomes completed, or failed when the optimizer raised.
RunOptimizationJob(i) ==
    /\ i \in QueuedJobs
    /\ Cardinality({j \in QueuedJobs : j < i}) < RunWindow
    /\ active_jobs' =
         [active_jobs EXCEPT ![i] =
            OptimizationJob(IF active_jobs[i].valid THEN "completed" ELSE "failed",
                            FALSE, active_jobs[i].valid)]
    /\ lastOp' = [op |-> "run", statuses |-> <<"running", active_jobs'[i].status>>]
    /\ lastExec' = NoExec
    /\ UNCHANGED <<now, fleet, active_decisions, decision_history,
                   decision_counter, feedback, executed>>
    /\ UNCHANGED schedulerVars
    /\ UNCHANGED optimizerVars
    /\ UNCHANGED <<stop_requested, loop_tasks, telemetry_history>>

SubmitOptimization == \E valid \in BOOLEAN : OptimizeScheduleAsync(valid)

RunQueuedJob == \E i \in 1..Len(active_jobs) : RunOptimizationJob(i)

InitJobs ==
    /\ now = 0
    /\ fleet = <<>>
    /\ active_decisions = <<>>
    /\ decision_history = <<>>
    /\ decision_counter = 0
    /\ feedback = <<>>
    /\ executed = {}
    /\ lastExec = NoExec
    /\ generated_schedules = <<>>
    /\ performance_history = <<>>
    /\ confidence_threshold = 75
    /\ auto_execution_threshold = 85
    /\ optimizer = NoOptimization
    /\ stop_requested = FALSE
    /\ active_jobs = <<>>
    /\ loop_tasks = TasksCreated
    /\ telemetry_history = <<>>
    /\ lastOp = [op |-> "init"]

NextJobs ==
    \/ SubmitOptimization
    \/ RunQueuedJob

SpecJobs == InitJobs /\ [][NextJobs]_vars

\* The jobs whose optimization is in progress, and those accepted and
\* waiting for their optimization to start.
RunningJobs == {i \in 1..Len(active_jobs) : active_jobs[i].status = "running"}

WaitingJobs == {i \in 1..Len(active_jobs) : active_jobs[i].status = "pending"}

\* C30: at most MAX_CONCURRENT_OPTIMIZATIONS optimizations are running, at
\* most OPTIMIZATION_QUEUE_SIZE requests are waiting, and a request that
\* arrives when that many are waiting is not accepted.
C30_BoundedOptimizationQueue ==
    /\ Cardinality(RunningJobs) <= MAX_CONCURRENT_OPTIMIZATIONS
    /\ Cardinality(WaitingJobs) <= OPTIMIZATION_QUEUE_SIZE
    /\ (lastOp.op = "submit" /\ lastOp.waiting_before >= OPTIMIZATION_QUEUE_SIZE)
          => ~lastOp.accepted

----------------------------------------------------------------------------
(* The start operation (app/routers/ai_automation.py).  The runs of         *)
(* SpecStart begin after construction, with no task created.                *)

MaxStarts == 3

\* AutonomousAIEngine.initialize: model_manager.load_models is a coroutine
\* function; feedback_loop.load_models is a plain function whose value is
\* awaited before the two create_task calls.
Initialize(tasks) ==
    IF AwaitOfPlainValueRaises
    THEN [raised |-> "TypeError", tasks |-> tasks]
    ELSE [raised |-> "",
          tasks |-> [loop \in BackgroundLoops |->
                        IF loop \in EngineLoops THEN tasks[loop] + 1
                        ELSE tasks[loop]]]

\* IntelligentAutoScheduler.start_autonomous_scheduling: three create_task
\* calls, with no test of tasks created earlier.
StartAutonomousScheduling(tasks) ==
    [loop \in BackgroundLoops |->
        IF loop \in SchedulerLoops THEN tasks[loop] + 1 ELSE tasks[loop]]

\* start_ai_automation (POST /start): initialize, then
\* start_autonomous_scheduling; an exception of either becomes HTTP 500.
StartAiAutomation ==
    /\ loop_tasks.starts < MaxStarts
    /\ LET engine == Initialize(loop_tasks.tasks)
       IN  /\ loop_tasks' =
                [starts |-> loop_tasks.starts + 1,
                 tasks |-> IF engine.raised # "" THEN engine.tasks
                           ELSE StartAutonomousScheduling(engine.tasks)]
           /\ lastOp' = [op |-> "start",
                         status |-> IF engine.raised # "" THEN 500 ELSE 200,
                         raised |-> engine.raised]
    /\ lastExec' = NoExec
    /\ UNCHANGED <<now, fleet, active_decisions, decision_history,
                   decision_counter, feedback, executed>>
    /\ UNCHANGED schedulerVars
    /\ UNCHANGED optimizerVars
    /\ UNCHANGED <<stop_requested, active_jobs, telemetry_history>>

InitStart ==
    /\ now = 0
    /\ fleet = <<>>
    /\ active_decisions = <<>>
    /\ decision_history = <<>>
    /\ decision_counter = 0
    /\ feedback = <<>>
    /\ executed = {}
    /\ lastExec = NoExec
    /\ generated_schedules = <<>>
    /\ performance_history = <<>>
    /\ confidence_threshold = 75
    /\ auto_execution_threshold = 85
    /\ optimizer = NoOptimization
    /\ stop_requested = FALSE
    /\ active_jobs = <<>>
    /\ loop_tasks = NoTasks
    /\ telemetry_history = <<>>
    /\ lastOp = [op |-> "init"]

NextStart ==
    \/ StartAiAutomation
    \/ StopAiAutomation
    \/ Advance

SpecStart == InitStart /\ [][NextStart]_vars

----------------------------------------------------------------------------
(* Telemetry of the predictive maintenance                                  *)
(* (app/ai_automation/predictive_maintenance.py).  A sample is the trainset *)
(* it was taken on and the day of its timestamp.                            *)

RetentionDays == 30
AnalysisWindow == 100
MinReadings == 5

MaxWatchedSamples == 6
MaxEarlyOthers == 1
MaxOtherSamples == 100

TrainsetTelemetry(trainset_id, timestamp) ==
    [trainset_id |-> trainset_id, timestamp |-> timestamp]

\* [t for t in self.telemetry_history[-100:] if t.trainset_id == trainset_id]
RecentTelemetry(history, trainset_id) ==
    SelectSeq(LastEntries(history, AnalysisWindow),
              LAMBDA t : t.trainset_id = trainset_id)

\* analyze_trainset_health: the readings the component predictions are made
\* from; none when fewer than five are found.
AnalyzedReadings(history, trainset_id) ==
    LET recent_telemetry == RecentTelemetry(history, trainset_id)
    IN  IF Len(recent_telemetry) < MinReadings THEN <<>> ELSE recent_telemetry

\* ingest_telemetry: append, drop what is older than 30 days, analyse the
\* trainset of the sample.
IngestTelemetry(telemetry) ==
    LET appended == Append(telemetry_history, telemetry)
        cutoff_date == DateOf(now) - RetentionDays
        kept == SelectSeq(appended, LAMBDA t : t.timestamp > cutoff_date)
    IN
    /\ telemetry_history' = kept
    /\ lastOp' = [op |-> "ingest", trainset_id |-> telemetry.trainset_id,
                  found |-> RecentTelemetry(kept, telemetry.trainset_id),
                  readings |-> AnalyzedReadings(kept, telemetry.trainset_id)]
    /\ lastExec' = NoExec
    /\ UNCHANGED <<now, fleet, active_decisions, decision_history,
                   decision_counter, feedback, executed>>
    /\ UNCHANGED schedulerVars
    /\ UNCHANGED optimizerVars
    /\ UNCHANGED <<stop_requested, active_jobs, loop_tasks>>

\* analyze_trainset_health called for a trainset (health endpoint,
\* scheduler): reads the history.
AnalyzeHealth(trainset_id) ==
    /\ lastOp' = [op |-> "analyze", trainset_id |-> trainset_id,
                  found |-> RecentTelemetry(telemetry_history, trainset_id),
                  readings |-> AnalyzedReadings(telemetry_history, trainset_id)]
    /\ lastExec' = NoExec
    /\ UNCHANGED <<now, fleet, active_decisions, decision_history,
                   decision_counter, feedback, executed>>
    /\ UNCHANGED schedulerVars
    /\ UNCHANGED optimizerVars
    /\ UNCHANGED serviceVars

SamplesOf(history, trainset_id) ==
    SelectSeq(history, LAMBDA t : t.trainset_id = trainset_id)

\* Samples of TS001, of today or 31 days old, arrive first, with at most
\* MaxEarlyOthers samples of TS002 among them; samples of TS002 follow.
IngestWatched ==
    /\ Len(SamplesOf(telemetry_history, "TS001")) < MaxWatchedSamples
    /\ Len(SamplesOf(telemetry_history, "TS002")) <= MaxEarlyOthers
    /\ \E age \in {0, RetentionDays + 1} :
          IngestTelemetry(TrainsetTelemetry("TS001", DateOf(now) - age))

IngestOther ==
    /\ Len(SamplesOf(telemetry_history, "TS002")) < MaxOtherSamples
    /\ IngestTelemetry(TrainsetTelemetry("TS002", DateOf(now)))

AnalyzeWatched == AnalyzeHealth("TS001")

InitTelemetry ==
    /\ now = 0
    /\ fleet = <<>>
    /\ active_decisions = <<>>
    /\ decision_history = <<>>
    /\ decision_counter = 0
    /\ feedback = <<>>
    /\ executed = {}
    /\ lastExec = NoExec
    /\ generated_schedules = <<>>
    /\ performance_history = <<>>
    /\ confidence_threshold = 75
    /\ auto_execution_threshold = 85
    /\ optimizer = NoOptimization
    /\ stop_requested = FALSE
    /\ active_jobs = <<>>
    /\ loop_tasks = NoTasks
    /\ telemetry_history = <<>>
    /\ lastOp = [op |-> "init"]

NextTelemetry ==
    \/ IngestWatched
    \/ IngestOther
    \/ AnalyzeWatched

SpecTelemetry == InitTelemetry /\ [][NextTelemetry]_vars

\* The samples of the analysed trainset that the store holds.
OwnSamples == SamplesOf(telemetry_history, lastOp.trainset_id)

\* C32: an analysis of trainset T finds T's own most recent samples (up to
\* 100) of the last 30 days, whatever was ingested for other trainsets.
C32_AnalysisUsesOwnRecentSamples ==
    lastOp.op \in {"ingest", "analyze"} =>
        lastOp.found = LastEntries(OwnSamples, AnalysisWindow)

-----------------------------------------------------------------------------
\* Claims about the interplay of the loops.

\* C33: a trainset that is out of order at the moment the optimizer input is
\* built is not taken as eligible: no TrainsetData is built by the
\* schedule-optimization handler for a trainset whose status is OUT_OF_ORDER
\* at that moment.
C33_OutOfOrderNotEligible ==
    \A e \in EventsOfTick :
        e.ev = "trainset_data" => e.status # "OUT_OF_ORDER"

\* C34: a decision is executed at most once: an executor tick invokes no
\* handler for a decision for which a handler was invoked by an earlier
\* executor tick.
C34_ExecutedAtMostOnce ==
    [][lastOp'.op = "execute" =>
          \A e \in HandlerEvents' : DecisionKey(e.decision) \notin executed]_vars

\* C35: no error leaves an executor tick part-way through: every decision of
\* the active set that is ready for execution when an executor tick starts
\* has a handler invoked for it during that tick.
C35_EveryReadyDecisionAttempted ==
    [][lastOp'.op = "execute" =>
          \A d \in ActiveSet :
              IsDecisionReadyForExecution(d, now)
                  => \E e \in HandlerEvents' : e.decision = d]_vars

\* C36: decision identities are unique: no two decisions created by the
\* engine (decision_history holds the id of each, in creation order) carry
\* the same decision_id.
C36_DecisionIdsUnique ==
    \A i, j \in 1..Len(decision_history) :
        i # j => decision_history[i] # decision_history[j]

\* C37: the evaluator does not duplicate pending work: while no handler has
\* run (so the fleet is as it was when every active decision was created),
\* an evaluator tick places no new decision in the active set next to a
\* decision of the same type that affects one of the same trainsets.
C37_NoDuplicatePendingWork ==
    [][(lastOp'.op = "evaluate" /\ executed = {} /\ fleet' = fleet) =>
          \A d \in ActiveSet, d2 \in ActiveSet' :
              ~ /\ d \in ActiveSet'
                /\ d2 \notin ActiveSet
                /\ d2.decision_type = d.decision_type
                /\ Range(d2.affected_trainsets) \cap Range(d.affected_trainsets) # {}]_vars

\* C38: in every state reached from the initial thresholds by adaptive-loop
\* ticks, confidence_threshold is strictly below auto_execution_threshold.
C38_ApprovalBandNotEmpty ==
    confidence_threshold < auto_execution_threshold

\* An adaptive tick has run on a success rate above 0.9 with both thresholds
\* already at their floors, and has left them there.
C38_Witness ==
    /\ AfterAdaptiveTick
    /\ Len(performance_history) >= MinHistoryForAdaptation
    /\ 10 * SuccessesOfLast20 > 9 * LengthOfLast20
    /\ lastOp.ct = ConfidenceFloor /\ lastOp.aet = AutoExecutionFloor
    /\ confidence_threshold = ConfidenceFloor
    /\ auto_execution_threshold = AutoExecutionFloor

-----------------------------------------------------------------------------
(* Cancelling asynchronous optimization jobs *)

MaxCancellableJobs == 3

\* cancel_optimization_job (DELETE /job/{job_id}): refused for a completed
\* job; otherwise the status becomes cancelled.  The background task of the
\* job is not touched: if it was queued, it stays queued.
CancelOptimizationJob(i) ==
    /\ i \in 1..Len(active_jobs)
    /\ active_jobs[i].status # "completed"
    /\ active_jobs' = [active_jobs EXCEPT ![i].status = "cancelled"]
    /\ lastOp' = [op |-> "cancel", job |-> i]
    /\ lastExec' = NoExec
    /\ UNCHANGED <<now, fleet, active_decisions, decision_history,
                   decision_counter, feedback, executed>>
    /\ UNCHANGED schedulerVars
    /\ UNCHANGED optimizerVars
    /\ UNCHANGED <<stop_requested, loop_tasks, telemetry_history>>

CancelJob == \E i \in 1..Len(active_jobs) : CancelOptimizationJob(i)

SubmitCancellable ==
    /\ Len(active_jobs) < MaxCancellableJobs
    /\ SubmitOptimization

NextCancel ==
    \/ SubmitCancellable
    \/ RunQueuedJob
    \/ CancelJob

SpecCancel == InitJobs /\ [][NextCancel]_vars

\* C39: cancelled is a terminal status of a job: once a job is cancelled, no
\* step changes its status (to running, completed or failed; a result is
\* stored exactly when the status becomes completed).
C39_CancelledIsTerminal ==
    [][\A i \in 1..Len(active_jobs) :
          active_jobs[i].status = "cancelled"
              => active_jobs'[i].status = "cancelled"]_vars

-----------------------------------------------------------------------------
(* Termination of the two metaheuristic drivers: calls whose parameters    *)
(* vary (no generations, no iterations, a cooling rate of 1 and above).    *)

CoolingRates == {<<CoolingNumerator, CoolingDenominator>>, <<1, 1>>, <<2, 1>>}

GenerationCounts == {0, Generations}

IterationCaps == {0, MaxIterations}

DriverMaxTrainsets == 2

\* request.parameters as sent by the caller.
RequestWithParameters(algorithm, generations, cooling_rate, max_iterations) ==
    [OptimizationRequest(algorithm, DriverMaxTrainsets) EXCEPT
        !.parameters.generations = generations,
        !.parameters.cooling_rate = cooling_rate,
        !.parameters.max_iterations = max_iterations]

SameHashOrders == CHOOSE h \in HashOrders : h[1] = h[2]

DriverCalls ==
    {OptimizationCall(RequestWithParameters("genetic_algorithm", generations,
                                            <<CoolingNumerator, CoolingDenominator>>,
                                            MaxIterations),
                      trainsets, seed, SameHashOrders) :
        generations \in GenerationCounts, trainsets \in OptimizerFleets,
        seed \in Seeds}
    \cup
    {OptimizationCall(RequestWithParameters("simulated_annealing", Generations,
                                            cooling_rate, max_iterations),
                      trainsets, seed, SameHashOrders) :
        cooling_rate \in CoolingRates, max_iterations \in IterationCaps,
        trainsets \in OptimizerFleets, seed \in Seeds}

InitDrivers ==
    /\ now = 0
    /\ fleet = <<>>
    /\ active_decisions = <<>>
    /\ decision_history = <<>>
    /\ decision_counter = 0
    /\ feedback = <<>>
    /\ executed = {}
    /\ lastExec = NoExec
    /\ generated_schedules = <<>>
    /\ performance_history = <<>>
    /\ confidence_threshold = 75
    /\ auto_execution_threshold = 85
    /\ optimizer \in DriverCalls
    /\ stop_requested = FALSE
    /\ active_jobs = <<>>
    /\ loop_tasks = TasksCreated
    /\ telemetry_history = <<>>
    /\ lastOp = [op |-> "init"]

NextDrivers ==
    \/ OptimizeScheduleEnter
    \/ GeneticInitialise
    \/ GeneticGenerationStep
    \/ GeneticReturn
    \/ AnnealingInitialise
    \/ AnnealingStep
    \/ AnnealingReturn
    \/ OptimizeScheduleReturn

SpecDrivers == InitDrivers /\ [][NextDrivers]_vars

\* The number of steps the call has left at most: the passes its loop has
\* left by its own counter, and the steps outside the loop.
StepsLeft ==
    LET p == optimizer.request.parameters IN
    CASE optimizer.phase = "called" ->
            Max(p.generations, p.max_iterations) + 4
      [] optimizer.phase \in {"genetic_initial", "annealing_initial"} ->
            Max(p.generations, p.max_iterations) + 3
      [] optimizer.phase = "genetic_loop" ->
            (p.generations - optimizer.runs[1].generation) + 2
      [] optimizer.phase = "annealing_loop" ->
            (p.max_iterations - optimizer.runs[1].iteration) + 2
      [] optimizer.phase = "solved" -> 1
      [] OTHER -> 0

\* C40: both metaheuristic drivers terminate for every input and parameter
\* setting: every step of a call brings the number of steps it has left, a
\* natural number, strictly down (the population driver leaves its loop after
\* the configured number of generations, the local-search driver when the
\* temperature is below the minimum or the iteration cap is reached, also
\* with a cooling rate of 1 or more).
C40_DriversTerminate ==
    [][StepsLeft' \in Nat /\ StepsLeft' < StepsLeft]_vars

\* A local-search call with a cooling rate of 1 or more has returned after
\* exactly max_iterations iterations, its temperature never below the
\* minimum.
C40_Witness ==
    /\ optimizer.phase = "returned"
    /\ optimizer.algorithm = "simulated_annealing"
    /\ optimizer.request.parameters.cooling_rate[1]
          >= optimizer.request.parameters.cooling_rate[2]
    /\ optimizer.request.parameters.max_iterations = MaxIterations
    /\ optimizer.runs[1].iteration = MaxIterations
    /\ optimizer.runs[1].temperature
          >= optimizer.request.parameters.min_temperature


====
